---- MODULE Spec2Model ----
(***************************************************************************)
(* LiveWell-E dialogue state machine (src/app): lexical extractors, the    *)
(* PRISMA-7 scorer, the routine planner and the LangGraph turn, modelled   *)
(* as a state machine over one session.                                    *)
(*                                                                         *)
(* Conventions                                                             *)
(*  - A user message is a sequence of tokens.  A token is a record         *)
(*    [w, d, neg, p]: a word w (d = <<>>) or a number with decimal digits  *)
(*    d (w = ""), an optional leading minus sign neg and the punctuation   *)
(*    p glued to its end ("" when none).  Tokens are separated by          *)
(*    whitespace; the empty and the whitespace-only message are <<>>.      *)
(*  - Optional[T] is a set with at most one element: None == {}.           *)
(*  - A dict is a function whose DOMAIN is the set of its keys.            *)
(*  - state["awaiting"] = None is the string "None"; an absent, None or    *)
(*    empty state["reply"] is "" (the code only tests it for truthiness).  *)
(***************************************************************************)
EXTENDS Integers, Sequences, FiniteSets, TLC

None == {}
Some(x) == {x}
The(o) == CHOOSE x \in o : TRUE

\* ------------------------------------------------------------------ tokens

Tok(w) == [w |-> w, d |-> <<>>, neg |-> FALSE, p |-> ""]
TokP(w, p) == [w |-> w, d |-> <<>>, neg |-> FALSE, p |-> p]
Num(d) == [w |-> "", d |-> d, neg |-> FALSE, p |-> ""]
NumP(d, p) == [w |-> "", d |-> d, neg |-> FALSE, p |-> p]
NegNum(d) == [w |-> "", d |-> d, neg |-> TRUE, p |-> ""]

IsWord(t) == t.d = <<>> /\ t.w # ""
IsNum(t) == t.d # <<>>

\* str.lower() on a word: the words of the vocabulary that carry capitals.
Lower(w) ==
  CASE w = "I'm" -> "i'm"
    [] w = "Yes" -> "yes"
    [] w = "Hello" -> "hello"
    [] w = "Tired" -> "tired"
    [] w = "None" -> "none"
    [] w = "Hi" -> "hi"
    [] w = "Want" -> "want"
    [] w = "It" -> "it"
    [] w = "How's" -> "how's"
    [] w = "Okay" -> "okay"
    [] OTHER -> w

lower(text) == [i \in DOMAIN text |-> [text[i] EXCEPT !.w = Lower(@)]]

\* int("d1d2...dn")
RECURSIVE DigitsValue(_)
DigitsValue(d) ==
  IF d = <<>> THEN 0 ELSE 10 * DigitsValue(SubSeq(d, 1, Len(d) - 1)) + d[Len(d)]

Min(a, b) == IF a <= b THEN a ELSE b
Max(a, b) == IF a >= b THEN a ELSE b

\* text.strip() in S, S a set of phrases (sequences of lower-case words).
TextIn(text, S) ==
  /\ \A i \in DOMAIN text : text[i].d = <<>> /\ text[i].p = ""
  /\ [i \in DOMAIN text |-> text[i].w] \in S

\* The vocabulary words that contain `sub` as a substring (Python's `sub in low`
\* for a one-word sub; punctuation and digits contain no letters).
WordsContaining(sub) ==
  CASE sub = "hi" -> {"hi", "nothing", "this"}
    [] sub = "hello" -> {"hello"}
    [] sub = "hey" -> {"hey", "they"}
    [] sub = "mood" -> {"mood"}
    [] sub = "energy" -> {"energy"}
    [] sub = "steps" -> {"steps"}
    [] sub = "plan" -> {"plan", "planet"}
    [] sub = "draft" -> {"draft"}
    [] sub = "easier" -> {"easier"}
    [] sub = "lighter" -> {"lighter"}
    [] sub = "harder" -> {"harder"}
    [] sub = "tougher" -> {"tougher"}
    [] sub = "swap" -> {"swap"}
    [] sub = "different" -> {"different"}
    [] sub = "variety" -> {"variety"}
    [] OTHER -> {}

\* `sub in low`, sub a single word.
HasSub(low, sub) == \E i \in DOMAIN low : low[i].w \in WordsContaining(sub)

\* `"a b" in low`: a word ending in a, one space, a word starting with b; in
\* the vocabulary only a and b themselves end in a and start with b.
HasPhrase(low, a, b) ==
  \E i \in DOMAIN low :
    /\ i + 1 \in DOMAIN low
    /\ low[i].w = a /\ low[i].p = ""
    /\ low[i + 1].w = b

\* re.search(r"\b(w1|w2|...)\b", low): a token that is one of the words.
HasWord(low, S) == \E i \in DOMAIN low : IsWord(low[i]) /\ low[i].w \in S

\* ------------------------------------------------------------ nodes.py helpers

YES_with_ok == {<<"y">>, <<"yes">>, <<"yeah">>, <<"yep">>, <<"true">>, <<"sure">>,
                <<"go">>, <<"start">>, <<"plan">>, <<"ok">>, <<"okay">>}

YES == {<<"y">>, <<"yes">>, <<"yeah">>, <<"yep">>, <<"true">>, <<"sure">>,
        <<"go">>, <<"start">>, <<"plan">>}
NO == {<<"n">>, <<"no">>, <<"nope">>, <<"false">>, <<"later">>,
       <<"not", "now">>, <<"skip">>}

\* CHECKIN_RX.search(low)
CHECKIN_RX(low) ==
  \/ HasWord(low, {"check-in", "checkin", "checkup", "check-up"})
  \/ HasPhrase(low, "check", "in")

\* MOTIVATE_RX.search(low)
MOTIVATE_RX(low) ==
  \/ HasWord(low, {"motivate", "motivation", "encourage", "boost", "inspire",
                   "peptalk"})
  \/ HasPhrase(low, "pep", "talk")

MotivateWords == {<<"motivation">>, <<"motivate">>, <<"pep">>, <<"pep", "talk">>}

\* re.search(r"\b(restart|start over|redo)\b", low)
RESTART_RX(low) ==
  \/ HasWord(low, {"restart", "redo"})
  \/ HasPhrase(low, "start", "over")

_yn(value) ==
  LET v == lower(value) IN
  IF TextIn(v, YES) THEN Some(TRUE)
  ELSE IF TextIn(v, NO) THEN Some(FALSE)
  ELSE None

\* Variant: the sign of the number is dropped.
_get_int_unsigned(text) ==
  LET idx == {i \in DOMAIN text : IsNum(text[i])} IN
  IF idx = {} THEN None
  ELSE LET i == CHOOSE j \in idx : \A k \in idx : j <= k
       IN Some(DigitsValue(SubSeq(text[i].d, 1, Min(6, Len(text[i].d)))))

\* re.search(r"(-?\d{1,6})", text.replace(",", "")): the first number, its sign,
\* at most its first six digits.
_get_int(text) ==
  LET idx == {i \in DOMAIN text : IsNum(text[i])} IN
  IF idx = {} THEN None
  ELSE LET i == CHOOSE j \in idx : \A k \in idx : j <= k
           t == text[i]
           v == DigitsValue(SubSeq(t.d, 1, Min(6, Len(t.d))))
       IN Some(IF t.neg THEN 0 - v ELSE v)

_extract_mood_from_text(text) ==
  LET low == lower(text) IN
  IF HasWord(low, {"tired", "tiredd", "tireddd"}) THEN Some("tired")
  ELSE IF HasWord(low, {"fatigued", "exhausted", "weary", "sleepy"}) THEN Some("tired")
  ELSE IF HasWord(low, {"sad", "down", "low", "depressed", "blue", "stressed",
                        "anxious", "worried"}) THEN Some("low")
  ELSE IF HasWord(low, {"ok", "okay", "fine", "neutral"}) THEN Some("okay")
  ELSE IF HasWord(low, {"good", "great", "happy", "well", "better"}) THEN Some("good")
  ELSE None

\* The leading [a-zA-Z]+ of a word.
LettersPrefix(w) ==
  CASE w = "i'm" -> "i"
    [] w = "check-in" -> "check"
    [] OTHER -> w

\* dict update: d.update(e)
Update(d, e) ==
  [k \in DOMAIN d \cup DOMAIN e |-> IF k \in DOMAIN e THEN e[k] ELSE d[k]]

\* d[k] = v
Put(d, k, v) == [j \in DOMAIN d \cup {k} |-> IF j = k THEN v ELSE d[j]]

EmptyDict == [k \in {} |-> 0]

KeyPunct == {"", ":", "="}

_extract_slot_kv(text) ==
  LET low == lower(text)
      n == Len(text)
      First(S) == CHOOSE j \in S : \A k \in S : j <= k
      \* \bmood\s*[:=]?\s*([a-zA-Z]+)
      moodAt == {i \in 1..(n - 1) :
                   /\ low[i].w = "mood" /\ low[i].p \in KeyPunct
                   /\ IsWord(low[i + 1])}
      g == _extract_mood_from_text(text)
      moodOut == IF moodAt # {}
                 THEN [k \in {"mood"} |-> LettersPrefix(low[First(moodAt) + 1].w)]
                 ELSE IF g # None THEN [k \in {"mood"} |-> The(g)]
                 ELSE EmptyDict
      \* \benergy\s*[:=]?\s*(\d{1,2})
      energyAt == {i \in 1..(n - 1) :
                     /\ low[i].w = "energy" /\ low[i].p \in KeyPunct
                     /\ IsNum(low[i + 1]) /\ ~low[i + 1].neg}
      energyOut == IF energyAt = {} THEN EmptyDict
                   ELSE LET d == low[First(energyAt) + 1].d
                            v == DigitsValue(SubSeq(d, 1, Min(2, Len(d))))
                        IN [k \in {"energy"} |-> Max(0, Min(10, v))]
      \* \bsteps?\s*[:=]?\s*(\d{2,6})\b
      stepsAt == {i \in 1..(n - 1) :
                    /\ low[i].w \in {"step", "steps"} /\ low[i].p \in KeyPunct
                    /\ IsNum(low[i + 1]) /\ ~low[i + 1].neg
                    /\ Len(low[i + 1].d) \in 2..6}
      \* \b(\d{2,6})\s+steps?\b
      stepsBefore == {i \in 2..n :
                        /\ low[i].w \in {"step", "steps"}
                        /\ IsNum(low[i - 1]) /\ low[i - 1].p = ""
                        /\ Len(low[i - 1].d) \in 2..6}
      stepsOut == IF stepsAt # {}
                  THEN [k \in {"steps"} |-> DigitsValue(low[First(stepsAt) + 1].d)]
                  ELSE IF stepsBefore # {}
                  THEN [k \in {"steps"} |-> DigitsValue(low[First(stepsBefore) - 1].d)]
                  ELSE EmptyDict
  IN Update(Update(moodOut, energyOut), stepsOut)

\* ------------------------------------------------------------ tools/frailty.py

PRISMA_QUESTIONS == <<
  [key |-> "over_85", question |-> "Are you over 85? (yes/no)", reverse |-> FALSE],
  [key |-> "male", question |-> "Are you male? (yes/no)", reverse |-> FALSE],
  [key |-> "limit_activities",
   question |-> "Do health problems limit your activities? (yes/no)",
   reverse |-> FALSE],
  [key |-> "need_help_regularly",
   question |-> "Do you need help on a regular basis? (yes/no)",
   reverse |-> FALSE],
  [key |-> "stay_home",
   question |-> "Do health problems force you to stay at home? (yes/no)",
   reverse |-> FALSE],
  [key |-> "someone_close",
   question |-> "In case of need, can you count on someone close to you? (yes/no)",
   reverse |-> TRUE],
  [key |-> "use_aid",
   question |-> "Do you regularly use a cane, walker, or wheelchair? (yes/no)",
   reverse |-> FALSE] >>

PRISMA_ORDER == [i \in DOMAIN PRISMA_QUESTIONS |-> PRISMA_QUESTIONS[i].key]

PRISMA_HIGH_RISK_THRESHOLD == 3

\* Python values an answer can be: None, a bool, a string, an int, a list, a dict.
JNull == [t |-> "null"]
JBool(b) == [t |-> "bool", b |-> b]
JStr(s) == [t |-> "str", s |-> s]
JNum(n) == [t |-> "num", n |-> n]
JList(l) == [t |-> "list", l |-> l]
JDict(f) == [t |-> "dict", f |-> f]

\* The answers the wizard stores (bool(yn)) as the scorer receives them.
Bools(answers) == [k \in DOMAIN answers |-> JBool(answers[k])]

\* str(value).strip().lower() for the strings and ints the model sends.
StripLower(value) ==
  CASE value.t = "str" ->
         (CASE value.s = " yes " -> "yes"
            [] value.s = "NO" -> "no"
            [] OTHER -> Lower(value.s))
    [] value.t = "num" -> ToString(value.n)
    [] OTHER -> "[...]"

_normalize_bool(value) ==
  IF value.t = "bool" THEN Some(value.b)
  ELSE IF value.t = "null" THEN None
  ELSE LET s == StripLower(value) IN
       IF s \in {"y", "yes", "true", "1"} THEN Some(TRUE)
       ELSE IF s \in {"n", "no", "false", "0"} THEN Some(FALSE)
       ELSE None

RECURSIVE ScoreFrom(_, _)
ScoreFrom(normalized, i) ==
  IF i > Len(PRISMA_QUESTIONS) THEN 0
  ELSE LET q == PRISMA_QUESTIONS[i]
           v == normalized[q.key]
           pt == IF q.reverse THEN (IF v THEN 0 ELSE 1) ELSE (IF v THEN 1 ELSE 0)
       IN pt + ScoreFrom(normalized, i + 1)

\* Variant: every yes counts a point, someone_close included.
prisma7_score_noreverse(answers) ==
  IF \E i \in DOMAIN PRISMA_QUESTIONS : PRISMA_QUESTIONS[i].key \notin DOMAIN answers
  THEN None
  ELSE IF \E k \in DOMAIN answers : _normalize_bool(answers[k]) = None
  THEN None
  ELSE Some(Cardinality({k \in DOMAIN answers : The(_normalize_bool(answers[k]))}))

\* Variant: a missing or unparseable answer counts as a no.
prisma7_score_lenient(answers) ==
  Some(ScoreFrom([k \in {PRISMA_QUESTIONS[i].key : i \in DOMAIN PRISMA_QUESTIONS} |->
                    IF k \in DOMAIN answers
                    THEN (IF _normalize_bool(answers[k]) = None THEN FALSE
                          ELSE The(_normalize_bool(answers[k])))
                    ELSE FALSE], 1))

prisma7_score(answers) ==
  IF \E i \in DOMAIN PRISMA_QUESTIONS :
       IF PRISMA_QUESTIONS[i].key \notin DOMAIN answers THEN TRUE
       ELSE _normalize_bool(answers[PRISMA_QUESTIONS[i].key]) = None
  THEN None
  ELSE Some(ScoreFrom([k \in DOMAIN answers |-> The(_normalize_bool(answers[k]))], 1))

prisma7_is_high_risk(score) ==
  IF score = None THEN None ELSE Some(The(score) >= PRISMA_HIGH_RISK_THRESHOLD)

\* ------------------------------------------------------------ tools/routine.py

IsListOfStr(j) == j.t = "list" /\ \A i \in DOMAIN j.l : j.l[i].t = "str"
StrList(j) == [i \in DOMAIN j.l |-> j.l[i].s]

\* slots.get(k) for the integer slots: the value, or None when the key is absent.
Get(d, k) == IF k \in DOMAIN d THEN Some(d[k]) ELSE None

\* _as_int on None or an int.
_as_int(x, default, lo, hi) ==
  LET v == IF x = None THEN default ELSE The(x) IN Min(hi, Max(lo, v))

\* _as_str on None or a non-empty string ("None" is what str(None) gives).
_as_str(x, default) == IF x = None THEN "None" ELSE The(x)

\* Variant: the low band ends below 2.
_risk_from_score_below2(score) ==
  IF score = None THEN "moderate"
  ELSE IF The(score) < 2 THEN "low"
  ELSE IF The(score) <= 4 THEN "moderate"
  ELSE "high"

_risk_from_score(score) ==
  IF score = None THEN "moderate"
  ELSE IF The(score) <= 2 THEN "low"
  ELSE IF The(score) <= 4 THEN "moderate"
  ELSE "high"

Risks == {"low", "moderate", "high"}

\* Variant: a required list that is absent or malformed counts as empty.
_validate_plan_partial(obj) ==
  Some([risk |-> "moderate",
        morning |-> IF "morning" \in DOMAIN obj /\ IsListOfStr(obj["morning"])
                    THEN StrList(obj["morning"]) ELSE <<>>,
        afternoon |-> IF "afternoon" \in DOMAIN obj /\ IsListOfStr(obj["afternoon"])
                      THEN StrList(obj["afternoon"]) ELSE <<>>,
        evening |-> IF "evening" \in DOMAIN obj /\ IsListOfStr(obj["evening"])
                    THEN StrList(obj["evening"]) ELSE <<>>,
        notes |-> <<>>])

\* _validate_plan(obj), obj a dict (function from keys to JSON values).
_validate_plan(obj) ==
  IF \E k \in {"morning", "afternoon", "evening"} :
       k \notin DOMAIN obj \/ ~IsListOfStr(obj[k])
  THEN None
  ELSE IF "risk" \in DOMAIN obj /\ obj["risk"].t \in {"list", "dict"}
  THEN None   \* `risk not in {...}` on an unhashable value raises; caught
  ELSE
    LET notes == IF "notes" \in DOMAIN obj /\ IsListOfStr(obj["notes"])
                 THEN StrList(obj["notes"]) ELSE <<>>
        risk == IF "risk" \in DOMAIN obj /\ obj["risk"].t = "str"
                   /\ obj["risk"].s \in Risks
                THEN obj["risk"].s ELSE "moderate"
    IN Some([risk |-> risk,
             morning |-> StrList(obj["morning"]),
             afternoon |-> StrList(obj["afternoon"]),
             evening |-> StrList(obj["evening"]),
             notes |-> notes])

\* Variant: the first option whatever the variant.
_pick_first(options, variant) == options[1]

\* options[variant % len(options)]
_pick(options, variant) == options[(variant % Len(options)) + 1]

\* Python round(n / 2.0): half to even.
RoundHalf_flat(n) == 0

RoundHalf(n) ==
  IF n % 2 = 0 THEN n \div 2
  ELSE LET lo == n \div 2 IN IF lo % 2 = 0 THEN lo ELSE lo + 1

\* ------------------------------------------------------------------- state

VARIABLES
  st,     \* the SessionState stored for the session id (memory._SESSIONS[id])
  parsed, \* history: the yes/no answers given since the wizard last started
  today,  \* int(datetime.utcnow().strftime("%Y%j")), the clock the fallback reads
  call,   \* the last direct call of generate_daily_plan and its outcome
  store,    \* memory._SESSIONS over several session ids, with the objects it holds
  threads,  \* the requests being served at once, each with its position and locals
  snapshot  \* livewell-e: memory._store[user_id], and the last response

vars == <<st, parsed, today, call, store, threads, snapshot>>

\* The value of a variable in the specifications that do not follow it.
Unused == <<>>

Elsewhere == <<store, threads, snapshot>>

\* _fallback_plan(slots, frailty_score, seed)
_fallback_plan(slots, frailty_score, seed) ==
  LET risk == _risk_from_score(frailty_score)
      mood == Lower(_as_str(Get(slots, "mood"), "okay"))
      energy == _as_int(Get(slots, "energy"), 5, 0, 10)
      steps == _as_int(Get(slots, "steps"), 0, 0, 100000)
      sd == IF seed = None THEN today ELSE The(seed)
      variant == sd % 3
      bump0 == IF energy <= 3 THEN 300 ELSE IF energy >= 8 THEN 1500 ELSE 800
      bump == IF risk = "high" THEN (bump0 * 6) \div 10 ELSE bump0
      walk_target == Min(8000, Max(1000, steps + bump))
      steps_to_go == Max(0, walk_target - steps)
      base_reps == IF risk = "high" THEN 6 ELSE IF risk = "moderate" THEN 8 ELSE 10
      adj == RoundHalf(energy - 5)
      reps == Max(4, Min(14, base_reps + adj))
      base_bal == IF risk = "high" THEN 10 ELSE IF risk = "moderate" THEN 15 ELSE 20
      bal == Max(8, Min(30, base_bal + (energy - 5)))
      hydrate == "Drink a glass of water (250 ml)"
      breathers == << "Box breathing 4-4-4-4 (5-7 min)",
                      "4-7-8 breathing (5-7 min)",
                      "Pursed-lip breathing (5 min)" >>
      am_moves == <<
        "Gentle walk: target ~" \o ToString(steps_to_go) \o " steps",
        "Hallway laps: aim ~" \o ToString(Max(6, steps_to_go \div 150)) \o " easy passes",
        "Out-and-back stroll: reach ~" \o ToString(steps_to_go) \o " more steps" >>
      pm_strength_sets == <<
        << "Chair sit-to-stands x" \o ToString(reps), "Calf raises x" \o ToString(reps) >>,
        << "Wall push-ups x" \o ToString(reps),
           "Counter rows or band pulls x" \o ToString(reps) >>,
        << "Step-ups to a low step x" \o ToString(reps), "Heel-to-toe walk 2x20 steps" >> >>
      mobility_snacks == << "Shoulder rolls and ankle circles (2 min)",
                            "Neck turns and gentle hip circles (2 min)",
                            "Seated cat-cow and wrist circles (2 min)" >>
      evening_winddowns == << "Gentle stretches: hamstrings, hip flexors, chest (5 min)",
                              "Progressive muscle relaxation (5-7 min)",
                              "Guided mindfulness or relaxing audio (10 min)" >>
  IN [risk |-> risk,
      morning |-> << _pick(breathers, variant), _pick(am_moves, variant), hydrate >>,
      afternoon |-> _pick(pm_strength_sets, variant) \o
                    << "Balance hold near support: " \o ToString(bal) \o "s/side",
                       _pick(mobility_snacks, variant), hydrate >>,
      evening |-> << _pick(evening_winddowns, variant),
                     "Optional: 1-line gratitude note" >>,
      notes |-> << "Mood: " \o mood,
                   "Energy: " \o ToString(energy) \o "/10",
                   "Steps so far: " \o ToString(steps),
                   "Frailty risk (PRISMA-7): " \o risk,
                   "Safety: stop if pain or dizziness; keep a chair or rail nearby.",
                   "If any new symptoms, consult a clinician." >>]

\* [n for n in enrich if n not in existing]
RECURSIVE NotIn(_, _)
NotIn(enrich, existing) ==
  IF enrich = <<>> THEN <<>>
  ELSE (IF \E i \in DOMAIN existing : existing[i] = Head(enrich)
        THEN <<>> ELSE << Head(enrich) >>) \o NotIn(Tail(enrich), existing)

\* A suggester is None (absent) or Some([raises, ret]): it raises, or returns
\* the JSON value ret.  The result is [raised, plan]; raised is TRUE when an
\* exception leaves generate_daily_plan.
generate_daily_plan_nocatch(slots, frailty_score, llm_suggester, seed) ==
  IF llm_suggester # None /\ The(llm_suggester).raises
  THEN [raised |-> TRUE, plan |-> EmptyDict]
  ELSE [raised |-> FALSE, plan |-> _fallback_plan(slots, frailty_score, seed)]

generate_daily_plan_unseeded(slots, frailty_score, llm_suggester, seed) ==
  [raised |-> FALSE, plan |-> _fallback_plan(slots, frailty_score, None)]

generate_daily_plan(slots, frailty_score, llm_suggester, seed) ==
  LET fallback == [raised |-> FALSE,
                   plan |-> _fallback_plan(slots, frailty_score, seed)]
  IN
  IF llm_suggester = None THEN fallback
  ELSE IF The(llm_suggester).raises THEN fallback   \* except Exception: pass
  ELSE
    LET proposed == The(llm_suggester).ret
        valid == _validate_plan(IF proposed.t = "dict" THEN proposed.f ELSE EmptyDict)
    IN
    IF valid = None THEN fallback
    ELSE
      LET v == The(valid)
          mood == Lower(_as_str(Get(slots, "mood"), "okay"))
          energy == _as_int(Get(slots, "energy"), 5, 0, 10)
          steps == _as_int(Get(slots, "steps"), 0, 0, 100000)
          risk == _risk_from_score(frailty_score)
          enrich == << "(auto) Mood: " \o mood,
                       "(auto) Energy: " \o ToString(energy) \o "/10",
                       "(auto) Steps so far: " \o ToString(steps),
                       "(auto) Frailty risk: " \o risk >>
          notes == v.notes \o NotIn(enrich, v.notes)
      IN [raised |-> FALSE,
          plan |-> [v EXCEPT !.notes = notes,
                             !.risk = IF v.risk \notin Risks THEN risk ELSE v.risk]]

\* ---------------------------------------------------------- graph/state.py

DEFAULT_REQUIRED_SLOTS == <<"mood", "energy", "steps">>

\* new_session().  `messages` is the transcript; the dialogue specifications
\* drop it at the end of each request (no node reads more than its last entry),
\* the transcript specification keeps it.  During a request `user` is
\* messages[-1]["content"], the one entry the nodes read; between requests it
\* is empty (the next request overwrites it before any node runs).  Three
\* fields record the
\* last request: `asked` is `awaiting` as the request found it, `route` the
\* functions it called in order, `exc` the exception that ended it ("" when it
\* completed).
new_session ==
  [messages |-> <<>>,
   user |-> <<>>,
   reply |-> "",
   label |-> "",
   slots |-> EmptyDict,
   awaiting |-> "None",
   prisma_answers |-> EmptyDict,
   prisma_index |-> 0,
   frailty_score |-> None,
   plan |-> EmptyDict,
   plan_seed |-> None,
   asked |-> "None",
   exc |-> "",
   route |-> <<>>]

\* An entry of the transcript, without its timestamp: the content of a user
\* entry is a message (`said`), that of an assistant entry a reply (`text`).
UserEntry(content) == [role |-> "user", said |-> content, text |-> ""]

AssistantEntry(content) == [role |-> "assistant", said |-> <<>>, text |-> content]

\* add_user_message(state, content)
add_user_message(state, content) ==
  [state EXCEPT !.user = content, !.messages = Append(@, UserEntry(content))]

add_assistant_message_twice(state, content) ==
  [state EXCEPT !.reply = content,
                !.messages = Append(Append(@, AssistantEntry(content)),
                                    AssistantEntry(content))]

\* add_assistant_message(state, content): appends the entry and sets `reply`.
add_assistant_message(state, content) ==
  [state EXCEPT !.reply = content, !.messages = Append(@, AssistantEntry(content))]

\* reset_reply(state)
reset_reply(state) == [state EXCEPT !.reply = ""]

\* ---------------------------------------------------------- graph/nodes.py

Visit(state, node) == [state EXCEPT !.route = Append(@, node)]

\* awaiting.startswith("slot:")
SlotAwaits == {"slot:mood", "slot:energy", "slot:steps"}
SlotOf(awaiting) ==
  CASE awaiting = "slot:mood" -> "mood"
    [] awaiting = "slot:energy" -> "energy"
    [] awaiting = "slot:steps" -> "steps"
    [] OTHER -> ""

\* re.fullmatch(r"\s*\d{1,6}\s*", low)
IsBareNumber(low) ==
  Len(low) = 1 /\ IsNum(low[1]) /\ ~low[1].neg /\ low[1].p = "" /\ Len(low[1].d) <= 6

MentionsSlot(low) == HasSub(low, "mood") \/ HasSub(low, "energy") \/ HasSub(low, "steps")

classify_intent_keywords_first(state0) ==
  LET state == Visit(state0, "classify_intent") IN
  LET low == lower(state.user) IN
  [state EXCEPT !.label =
     IF CHECKIN_RX(low) THEN "start_prisma"
     ELSE IF state.awaiting = "prisma" THEN "continue_prisma"
     ELSE IF state.awaiting = "confirm_checkin" THEN "handle_checkin_confirmation"
     ELSE IF state.awaiting = "post_checkin" THEN "handle_post_checkin"
     ELSE IF state.awaiting = "after_plan" THEN "handle_after_plan"
     ELSE IF state.awaiting \in SlotAwaits THEN "continue_slot"
     ELSE "maybe_compute_frailty"]

classify_intent(state0) ==
  LET state == Visit(state0, "classify_intent") IN
  LET txt == state.user
      low == lower(txt)
      awaiting == state.awaiting
  IN
  [state EXCEPT !.label =
     IF awaiting = "confirm_checkin" THEN "handle_checkin_confirmation"
     ELSE IF awaiting = "prisma" THEN "continue_prisma"
     ELSE IF awaiting = "post_checkin" THEN "handle_post_checkin"
     ELSE IF awaiting = "after_plan" THEN "handle_after_plan"
     ELSE IF awaiting \in SlotAwaits THEN "continue_slot"
     ELSE IF CHECKIN_RX(low) THEN "start_prisma"
     ELSE IF MOTIVATE_RX(low) \/ TextIn(low, MotivateWords) THEN "motivate"
     ELSE IF \/ HasSub(low, "hi") \/ HasSub(low, "hello") \/ HasSub(low, "hey")
             \/ TextIn(low, {<<>>, <<"start">>, <<"begin">>})
          THEN "greet_and_offer_checkin"
     ELSE IF \/ MentionsSlot(low)
             \/ IsBareNumber(low)
             \/ _extract_mood_from_text(txt) # None
          THEN "check_slots"
     ELSE "maybe_compute_frailty"]

\* Variant: the offer is made but no confirmation is awaited.
greet_and_offer_checkin_noawait(state0) ==
  LET state == Visit(state0, "greet_and_offer_checkin") IN
  [state EXCEPT
     !.reply = "Hi! Want to do your daily check-in now? It is 7 quick yes/no questions and takes about a minute."]

greet_and_offer_checkin(state0) ==
  LET state == Visit(state0, "greet_and_offer_checkin") IN
  [state EXCEPT
     !.awaiting = "confirm_checkin",
     !.reply = "Hi! Want to do your daily check-in now? It is 7 quick yes/no questions and takes about a minute."]

\* Variant: a start that keeps the index and answers of the previous run.
start_prisma_noreset(state0) ==
  LET state == Visit(state0, "start_prisma") IN
  [state EXCEPT
     !.awaiting = "prisma",
     !.reply = "Great - daily check-in Q1: " \o PRISMA_QUESTIONS[1].question]

start_prisma(state0) ==
  LET state == Visit(state0, "start_prisma") IN
  [state EXCEPT
     !.prisma_answers = EmptyDict,
     !.prisma_index = 0,
     !.awaiting = "prisma",
     !.reply = "Great - daily check-in Q1: " \o PRISMA_QUESTIONS[1].question]

handle_checkin_confirmation(state0) ==
  LET state == Visit(state0, "handle_checkin_confirmation") IN
  LET yn == _yn(state.user) IN
  IF yn = Some(TRUE) THEN start_prisma(state)
  ELSE IF yn = Some(FALSE)
  THEN [state EXCEPT
          !.awaiting = "None",
          !.reply = "No worries. You can say \"daily check-in\" anytime. If you like, tell me your mood, energy (0-10), or steps so far."]
  ELSE [state EXCEPT
          !.awaiting = "confirm_checkin",
          !.reply = "Would you like to start your daily check-in now? (yes/no)"]

extract_light_entities(state0) ==
  LET state == Visit(state0, "extract_light_entities") IN
  [state EXCEPT !.slots = Update(@, _extract_slot_kv(state.user))]

\* Variant: the last missing key instead of the first.
FirstMissing_last(required, slots) ==
  LET miss == {i \in DOMAIN required : required[i] \notin DOMAIN slots} IN
  IF miss = {} THEN None
  ELSE Some(required[CHOOSE i \in miss : \A j \in miss : i >= j])

\* The first key of `required` missing from slots, or None.
FirstMissing(required, slots) ==
  LET miss == {i \in DOMAIN required : required[i] \notin DOMAIN slots} IN
  IF miss = {} THEN None
  ELSE Some(required[CHOOSE i \in miss : \A j \in miss : i <= j])

EnsureQuestion(k) ==
  CASE k = "mood" -> "How's your mood today (e.g., good/okay/low)?"
    [] k = "energy" -> "What's your energy level 0-10?"
    [] k = "steps" -> "How many steps have you taken so far today?"

ensure_slots(state0) ==
  LET state == Visit(state0, "ensure_slots") IN
  LET k == FirstMissing(DEFAULT_REQUIRED_SLOTS, state.slots) IN
  IF k # None
  THEN [state EXCEPT !.awaiting = "slot:" \o The(k), !.reply = EnsureQuestion(The(k))]
  ELSE [state EXCEPT !.awaiting = "None"]

CollectQuestion(k) ==
  CASE k = "mood" -> "Got it. What's your mood today?"
    [] k = "energy" -> "Thanks. What's your energy level 0-10?"
    [] k = "steps" -> "Thanks. How many steps have you taken so far today?"

\* (user.strip().split()[0]).lower(): the first whitespace-separated piece with
\* its punctuation; IndexError when there is none.
RECURSIVE DigitsText(_)
DigitsText(d) == IF d = <<>> THEN "" ELSE ToString(Head(d)) \o DigitsText(Tail(d))

\* Variant: the first piece as typed.
FirstPiece_raw(user) ==
  LET t == user[1] IN
  IF IsWord(t) THEN t.w \o t.p
  ELSE (IF t.neg THEN "-" ELSE "") \o DigitsText(t.d) \o t.p

FirstPiece(user) ==
  LET t == user[1] IN
  IF IsWord(t) THEN Lower(t.w) \o t.p
  ELSE (IF t.neg THEN "-" ELSE "") \o DigitsText(t.d) \o t.p

collect_slot_answer(state0) ==
  LET state == Visit(state0, "collect_slot_answer") IN
  LET user == state.user
      slot_name == SlotOf(state.awaiting)
      g == _extract_mood_from_text(user)
      v == _get_int(user)
      raises == slot_name = "mood" /\ g = None /\ user = <<>>
      slots ==
        CASE slot_name = "mood" ->
               Put(state.slots, "mood", IF g # None THEN The(g) ELSE FirstPiece(user))
          [] slot_name = "energy" /\ v # None ->
               Put(state.slots, "energy", Max(0, Min(10, The(v))))
          [] slot_name = "steps" /\ v # None /\ The(v) >= 0 ->
               Put(state.slots, "steps", The(v))
          [] OTHER -> state.slots
      k == FirstMissing(DEFAULT_REQUIRED_SLOTS, slots)
  IN
  IF raises THEN [state EXCEPT !.exc = "IndexError"]
  ELSE IF k # None
  THEN [state EXCEPT !.slots = slots,
                     !.awaiting = "slot:" \o The(k),
                     !.reply = CollectQuestion(The(k))]
  ELSE [state EXCEPT !.slots = slots, !.awaiting = "None"]

check_slots(state) == ensure_slots(extract_light_entities(state))

\* Variant: an answer that does not parse is skipped, the next question asked.
continue_prisma_advances(state0) ==
  LET state == Visit(state0, "continue_prisma") IN
  LET yn == _yn(state.user)
      i0 == state.prisma_index
      n == Len(PRISMA_QUESTIONS)
      answers == IF i0 < n /\ yn # None
                 THEN Put(state.prisma_answers, PRISMA_QUESTIONS[i0 + 1].key, The(yn))
                 ELSE state.prisma_answers
      i == IF i0 < n THEN i0 + 1 ELSE i0
      score == prisma7_score(Bools(answers))
  IN
  IF i < n
  THEN [state EXCEPT
          !.prisma_answers = answers,
          !.prisma_index = i,
          !.awaiting = "prisma",
          !.reply = "Q" \o ToString(i + 1) \o ": " \o PRISMA_QUESTIONS[i + 1].question]
  ELSE [state EXCEPT
          !.prisma_answers = answers,
          !.prisma_index = i,
          !.awaiting = "post_checkin",
          !.frailty_score = score,
          !.reply = "All done"]

\* Variant: the wizard also logs the slot facts of an answer.
continue_prisma_logs(state0) ==
  LET state == [Visit(state0, "continue_prisma") EXCEPT
                  !.slots = extract_light_entities(state0).slots] IN
  LET yn == _yn(state.user)
      i0 == state.prisma_index
      n == Len(PRISMA_QUESTIONS)
      take == i0 < n /\ yn # None
      answers == IF take THEN Put(state.prisma_answers, PRISMA_QUESTIONS[i0 + 1].key, The(yn))
                 ELSE state.prisma_answers
      i == IF take THEN i0 + 1 ELSE i0
      score == prisma7_score(Bools(answers))
  IN
  IF i < n
  THEN [state EXCEPT
          !.prisma_answers = answers,
          !.prisma_index = i,
          !.awaiting = "prisma",
          !.reply = "Q" \o ToString(i + 1) \o ": " \o PRISMA_QUESTIONS[i + 1].question]
  ELSE [state EXCEPT
          !.prisma_answers = answers,
          !.prisma_index = i,
          !.awaiting = "post_checkin",
          !.frailty_score = score,
          !.reply = "All done - your daily check-in score is "
                    \o (IF score = None THEN "None" ELSE ToString(The(score)))
                    \o ". Would you like me to draft a quick plan for today, or would you prefer to log mood, energy, or steps first?"]

continue_prisma(state0) ==
  LET state == Visit(state0, "continue_prisma") IN
  LET yn == _yn(state.user)
      i0 == state.prisma_index
      n == Len(PRISMA_QUESTIONS)
      take == i0 < n /\ yn # None
      answers == IF take THEN Put(state.prisma_answers, PRISMA_QUESTIONS[i0 + 1].key, The(yn))
                 ELSE state.prisma_answers
      i == IF take THEN i0 + 1 ELSE i0
      score == prisma7_score(Bools(answers))
  IN
  IF i < n
  THEN [state EXCEPT
          !.prisma_answers = answers,
          !.prisma_index = i,
          !.awaiting = "prisma",
          !.reply = "Q" \o ToString(i + 1) \o ": " \o PRISMA_QUESTIONS[i + 1].question]
  ELSE [state EXCEPT
          !.prisma_answers = answers,
          !.prisma_index = i,
          !.awaiting = "post_checkin",
          !.frailty_score = score,
          !.reply = "All done - your daily check-in score is "
                    \o (IF score = None THEN "None" ELSE ToString(The(score)))
                    \o ". Would you like me to draft a quick plan for today, or would you prefer to log mood, energy, or steps first?"]

\* "\n".join(lines) / ", ".join(items)
RECURSIVE Join(_, _)
Join(items, sep) ==
  IF items = <<>> THEN ""
  ELSE IF Len(items) = 1 THEN items[1]
  ELSE items[1] \o sep \o Join(Tail(items), sep)

\* int(slots.get(k, default) or default)
IntOr(slots, k, default) ==
  IF k \in DOMAIN slots /\ slots[k] # 0 THEN slots[k] ELSE default

\* motivate: risk = "low" if (score is not None and score <= 2)
\*                  else ("high" if (score and score >= 5) else "moderate")
motivate_risk(score) ==
  IF score # None /\ The(score) <= 2 THEN "low"
  ELSE IF score # None /\ The(score) # 0 /\ The(score) >= 5 THEN "high"
  ELSE "moderate"

motivate(state0) ==
  LET state == Visit(state0, "motivate")
      slots == state.slots
      mood == IF "mood" \in DOMAIN slots THEN Lower(slots["mood"]) ELSE "okay"
      energy == IntOr(slots, "energy", 5)
      steps == IntOr(slots, "steps", 0)
      score == state.frailty_score
      risk == motivate_risk(score)
      base_bump == IF risk = "high" THEN (IF energy < 5 THEN 300 ELSE 600)
                   ELSE (IF energy < 5 THEN 500 ELSE 1000)
      walk_target == Min(7000, Max(1000, steps + base_bump))
      to_go == Max(0, walk_target - steps)
      lines == <<
        IF mood \in {"low", "down", "tired"} \/ energy <= 3
        THEN "Small steps count. Two minutes is enough to start."
        ELSE "You got this. Small wins add up fast.",
        "Micro-goal: about " \o ToString(to_go) \o " steps would meet today's gentle target.",
        "Tip: stand, roll shoulders, and walk to the kitchen and back. Then decide the next tiny step.",
        "Hydrate and breathe: 4-4-4-4 for one minute." >>
  IN [state EXCEPT !.reply = Join(lines, "\n")]

maybe_compute_frailty(state0) ==
  LET state == Visit(state0, "maybe_compute_frailty") IN
  IF state.frailty_score = None /\ Cardinality(DOMAIN state.prisma_answers) = 7
  THEN [state EXCEPT !.frailty_score = prisma7_score(Bools(state.prisma_answers))]
  ELSE state

\* Variant: every plan generation takes the seed of the day again.
plan_routine_reseed(state0, stable, llm) ==
  LET state == Visit(state0, "plan_routine")
      out == generate_daily_plan(state.slots, state.frailty_score,
                                 Some([raises |-> FALSE, ret |-> llm]), Some(stable))
  IN [state EXCEPT !.plan_seed = Some(stable),
                   !.plan = out.plan,
                   !.awaiting = "after_plan"]

\* plan_routine(state): stable is what _stable_seed(session_id) returns now,
\* llm what llm_suggester returns (json.loads of the completion, or {}).
plan_routine(state0, stable, llm) ==
  LET state == Visit(state0, "plan_routine")
      seed == IF state.plan_seed = None THEN stable ELSE The(state.plan_seed)
      out == generate_daily_plan(state.slots, state.frailty_score,
                                 Some([raises |-> FALSE, ret |-> llm]), Some(seed))
  IN [state EXCEPT !.plan_seed = Some(seed),
                   !.plan = out.plan,
                   !.awaiting = "after_plan"]

\* p.get(key, []) rendered by _line: ", ".join(items) if it is a list.
PlanLine(p, key) == IF key \in DOMAIN p THEN Join(p[key], ", ") ELSE ""

RenderPlan(p, awaiting) ==
  "Here is your plan:\n"
  \o "- Morning: " \o PlanLine(p, "morning") \o "\n"
  \o "- Afternoon: " \o PlanLine(p, "afternoon") \o "\n"
  \o "- Evening: " \o PlanLine(p, "evening") \o "\n"
  \o "Notes: " \o PlanLine(p, "notes")
  \o (IF awaiting = "after_plan"
      THEN "\n\nWant tweaks (easier/harder/swap), a pep talk (motivate), or log mood/energy/steps?"
      ELSE "")

\* Variant: the plan is rendered whatever reply a node has set.
compose_reply_always(state0) ==
  LET state == Visit(state0, "compose_reply") IN
  [state EXCEPT !.reply = RenderPlan(state.plan, state.awaiting)]

compose_reply(state0) ==
  LET state == Visit(state0, "compose_reply") IN
  IF state.reply # "" THEN state
  ELSE [state EXCEPT !.reply = RenderPlan(state.plan, state.awaiting)]

PostMenuWords == {<<"ok">>, <<"okay">>, <<"thanks">>, <<"thank", "you">>}

handle_post_checkin(state0, stable, llm) ==
  LET state == Visit(state0, "handle_post_checkin")
      user == state.user
      low == lower(user)
      mood == _extract_mood_from_text(user)
  IN
  IF CHECKIN_RX(low) \/ RESTART_RX(low)
  THEN start_prisma([state EXCEPT !.awaiting = "None"])
  ELSE IF mood # None
  THEN ensure_slots([state EXCEPT !.slots = Put(@, "mood", The(mood)),
                                  !.awaiting = "None"])
  ELSE IF TextIn(low, PostMenuWords)
  THEN [state EXCEPT
          !.awaiting = "post_checkin",
          !.reply = "Want me to put together a quick plan now (yes/no), or shall we log mood, energy, or steps?"]
  ELSE IF \/ TextIn(low, YES) \/ HasSub(low, "plan") \/ HasPhrase(low, "go", "ahead")
          \/ HasPhrase(low, "make", "it") \/ HasSub(low, "draft")
  THEN plan_routine([state EXCEPT !.awaiting = "None"], stable, llm)
  ELSE IF MentionsSlot(low) \/ IsBareNumber(low)
  THEN check_slots([state EXCEPT !.awaiting = "None"])
  ELSE IF MOTIVATE_RX(low) \/ TextIn(low, MotivateWords)
  THEN motivate([state EXCEPT !.awaiting = "post_checkin"])
  ELSE [state EXCEPT
          !.awaiting = "post_checkin",
          !.reply = "I can draft a quick plan (say yes), or we can log mood, energy (0-10), or steps. What would you like?"]

handle_after_plan(state0, stable, llm) ==
  LET state == Visit(state0, "handle_after_plan")
      user == state.user
      txt == lower(user)
      mood == _extract_mood_from_text(user)
      energy == IntOr(state.slots, "energy", 5)
      seed == IF state.plan_seed = None THEN 0 ELSE The(state.plan_seed)
  IN
  IF CHECKIN_RX(txt) \/ RESTART_RX(txt)
  THEN start_prisma([state EXCEPT !.awaiting = "None", !.reply = ""])
  ELSE IF mood # None
  THEN ensure_slots([state EXCEPT !.slots = Put(@, "mood", The(mood)),
                                  !.awaiting = "None"])
  ELSE IF TextIn(txt, PostMenuWords)
  THEN [state EXCEPT
          !.awaiting = "after_plan",
          !.reply = "Want tweaks (say easier/harder/swap), a pep talk (motivate), or log mood/energy/steps?"]
  ELSE IF MOTIVATE_RX(txt) \/ TextIn(txt, MotivateWords)
  THEN motivate([state EXCEPT !.awaiting = "after_plan"])
  ELSE IF HasSub(txt, "easier") \/ HasSub(txt, "lighter")
  THEN plan_routine([state EXCEPT !.slots = Put(@, "energy", Max(0, energy - 2)),
                                  !.reply = ""], stable, llm)
  ELSE IF HasSub(txt, "harder") \/ HasSub(txt, "tougher")
  THEN plan_routine([state EXCEPT !.slots = Put(@, "energy", Min(10, energy + 2)),
                                  !.reply = ""], stable, llm)
  ELSE IF HasSub(txt, "swap") \/ HasSub(txt, "different") \/ HasSub(txt, "variety")
  THEN plan_routine([state EXCEPT !.plan_seed = Some(seed + 1), !.reply = ""],
                    stable, llm)
  ELSE IF MentionsSlot(txt) \/ IsBareNumber(txt)
  THEN check_slots([state EXCEPT !.awaiting = "None"])
  ELSE [state EXCEPT
          !.awaiting = "after_plan",
          !.reply = "Say easier/harder/swap, motivate, or log mood/energy/steps."]

\* ---------------------------------------------------------- graph/build.py

\* _after_ensure_router and the edges behind it.
AfterEnsure(e, stable, llm) ==
  IF e.awaiting # "None" THEN compose_reply(e)
  ELSE compose_reply(plan_routine(maybe_compute_frailty(e), stable, llm))

\* GRAPH.invoke(state): classify_intent, the node policy_router selects, the
\* edges out of it, compose_reply.  A node that raises ends the run (exc).
build_graph(state, stable, llm) ==
  LET c == classify_intent(state)
      label == c.label
  IN
  CASE label = "handle_checkin_confirmation" ->
         compose_reply(handle_checkin_confirmation(c))
    [] label = "continue_prisma" -> compose_reply(continue_prisma(c))
    [] label = "handle_post_checkin" -> compose_reply(handle_post_checkin(c, stable, llm))
    [] label = "handle_after_plan" -> compose_reply(handle_after_plan(c, stable, llm))
    [] label = "motivate" -> compose_reply(motivate(c))
    [] label = "continue_slot" ->
         LET a == collect_slot_answer(c) IN
         IF a.exc # "" THEN a ELSE AfterEnsure(ensure_slots(a), stable, llm)
    [] label = "start_prisma" -> compose_reply(start_prisma(c))
    [] label = "check_slots" ->
         AfterEnsure(ensure_slots(extract_light_entities(c)), stable, llm)
    [] label = "greet_and_offer_checkin" -> compose_reply(greet_and_offer_checkin(c))
    [] OTHER -> compose_reply(plan_routine(maybe_compute_frailty(c), stable, llm))

\* ------------------------------------------------------------------ inputs

MaxSeed == 3

\* What _stable_seed can return (a hash of session id and day).
StableSeeds == {1, 2}
WizardSeeds == {2}

ValidPlanJSON ==
  JDict([k \in {"morning", "afternoon", "evening"} |->
           CASE k = "morning" -> JList(<<JStr("Stretch for 5 minutes")>>)
             [] k = "afternoon" -> JList(<<JStr("Walk to the park")>>)
             [] k = "evening" -> JList(<<JStr("Read a book")>>)])

\* What llm_suggester can return inside plan_routine: {} (no API key, a failed
\* call or unparseable text), a JSON value that is no dict, a dict without the
\* required lists, a dict with a non-string item, a valid plan.
EmptyJSON == JDict(EmptyDict)

LLMReturn(kind) ==
  CASE kind = "empty" -> EmptyJSON
    [] kind = "nondict" -> JList(<<JStr("walk")>>)
    [] kind = "missing" -> JDict([k \in {"morning", "afternoon"} |-> JList(<<JStr("Walk")>>)])
    [] kind = "nonstring" ->
         JDict([k \in {"morning", "afternoon", "evening"} |-> JList(<<JStr("Walk"), JNum(3)>>)])
    [] kind = "notalist" ->
         JDict([k \in {"morning", "afternoon", "evening"} |->
                  IF k = "evening" THEN JStr("Read a book") ELSE JList(<<JStr("Walk")>>)])
    [] kind = "valid" -> ValidPlanJSON

LLMKinds == {"empty", "valid"}
WizardKinds == {"empty"}

Say(words) == [i \in DOMAIN words |-> Tok(words[i])]

MsgDailyCheckin == Say(<<"daily", "check-in">>)
MsgTiredEnergy3Steps1200 ==
  << Tok("I'm"), TokP("tired", ","), Tok("energy"), NumP(<<3>>, ","),
     Tok("steps"), Num(<<1, 2, 0, 0>>) >>
MsgEnergy9Steps1200MoodCalm ==
  << Tok("energy"), NumP(<<9>>, ","), Tok("steps"), NumP(<<1, 2, 0, 0>>, ","),
     Tok("mood"), Tok("calm") >>

\* Messages of the dialogue specification: greetings, a yes, answers that do not
\* parse, slot facts, a plan tweak.  <<>> is a message of white space only.
Messages ==
  { <<>>,
    Say(<<"Hello">>), Say(<<"yes">>), Say(<<"yes", "please">>), Say(<<"swap">>),
    MsgDailyCheckin, MsgTiredEnergy3Steps1200, MsgEnergy9Steps1200MoodCalm,
    << Num(<<1, 2, 0, 0>>) >> }

Answers == { Say(<<"yes">>), Say(<<"maybe">>) }

\* Messages of the wizard specification: every yes/no run of the check-in.
WizardMessages ==
  { <<>>, Say(<<"hello">>), Say(<<"Yes">>), Say(<<"yes">>), Say(<<"no">>),
    Say(<<"yes", "please">>), Say(<<"not", "now">>), MsgDailyCheckin }

WizardAnswers == { Say(<<"yes">>), Say(<<"no">>), Say(<<"maybe">>) }

\* ----------------------------------------------------------------- main.py

NoCall == [op |-> "none"]

Init ==
  /\ store = Unused /\ threads = Unused /\ snapshot = Unused
  /\ st = new_session
  /\ parsed = <<>>
  /\ today = 2026307
  /\ call = NoCall

Range(f) == {f[i] : i \in DOMAIN f}

\* get_session, add_user_message, reset_reply
Begin(state, message) ==
  reset_reply(add_user_message(
    [state EXCEPT !.asked = state.awaiting, !.route = <<>>, !.exc = ""], message))

\* add_assistant_message(new_state, reply), set_session; a run that raised
\* stores nothing and leaves the dict get_session returned as it is by then.
Finish(g, default) ==
  LET done == IF g.exc # "" THEN g
              ELSE add_assistant_message(g, IF g.reply # "" THEN g.reply ELSE default)
  IN [done EXCEPT !.user = <<>>]

\* The session a request leaves in the store.  get_session hands out the stored
\* dict itself, so what the endpoint did to it before the graph ran is in the
\* store whether or not set_session is reached; what the nodes of a run that
\* raised did is there too when the graph works on that dict, and is not when
\* it works on a copy of it.
Stored(state, message, g, default) ==
  IF g.exc = "" THEN {Finish(g, default)}
  ELSE {Finish(g, default),
        Finish([Begin(state, message) EXCEPT !.route = g.route, !.exc = g.exc],
               default)}

\* The dialogue specifications do not keep the transcript.
Untracked(state) == [state EXCEPT !.messages = <<>>]

\* The parseable answers the wizard was sent since it last (re)started, in
\* order: TRUE for a yes, FALSE for a no.
Parsed(g, n) ==
  IF "start_prisma" \in Range(g.route) THEN <<>>
  ELSE IF "continue_prisma" \in Range(g.route) /\ _yn(g.user) # None
  THEN Append(n, The(_yn(g.user)))
  ELSE n

\* The graph runs a request can take from `state`: one per seed and suggester
\* reply when plan_routine runs, one otherwise.
Runs(state, message, seeds, kinds) ==
  LET s0 == Begin(state, message)
      g0 == build_graph(s0, 1, EmptyJSON)
  IN IF "plan_routine" \in Range(g0.route)
     THEN {build_graph(s0, stable, LLMReturn(kind)) : stable \in seeds, kind \in kinds}
     ELSE {g0}

\* The states POST /chat can leave behind for `message`, from `state`.
Turns(state, message, seeds, kinds) ==
  {Untracked(s) : s \in UNION {Stored(state, message, g, "Okay.") :
                                 g \in Runs(state, message, seeds, kinds)}}

\* One request through the graph: message, reply default of the endpoint.
Request(message, default, seeds, kinds) ==
  /\ \E g \in Runs(st, message, seeds, kinds) :
       /\ IF g.plan_seed = None THEN TRUE ELSE The(g.plan_seed) <= MaxSeed
       /\ \E s \in Stored(st, message, g, default) : st' = Untracked(s)
       /\ parsed' = Parsed(g, parsed)
  /\ UNCHANGED <<today, call>> /\ UNCHANGED Elsewhere

\* POST /chat
Chat == \E message \in Messages : Request(message, "Okay.", StableSeeds, LLMKinds)

\* POST /assessments/prisma7/start
PrismaStart == Request(MsgDailyCheckin, "", StableSeeds, LLMKinds)

\* POST /assessments/prisma7/answer
PrismaAnswer == \E answer \in Answers : Request(answer, "", StableSeeds, LLMKinds)

WelcomeText ==
  "Hi! Ready for your daily check-in? It's 7 quick yes/no questions and takes about a minute. Say \"yes\" to begin, or share your mood/energy/steps."

\* POST /session/welcome
SessionWelcome ==
  /\ st' = Untracked(add_assistant_message(
             [st EXCEPT !.awaiting = "confirm_checkin",
                        !.asked = st.awaiting, !.route = <<"session_welcome">>,
                        !.exc = ""],
             WelcomeText))
  /\ UNCHANGED <<parsed, today, call>> /\ UNCHANGED Elsewhere

Next == Chat \/ PrismaStart \/ PrismaAnswer \/ SessionWelcome

Spec == Init /\ [][Next]_vars

\* The check-in wizard under every yes/no answer.
ChatWizard ==
  \E message \in WizardMessages : Request(message, "Okay.", WizardSeeds, WizardKinds)

PrismaStartWizard == Request(MsgDailyCheckin, "", WizardSeeds, WizardKinds)

PrismaAnswerWizard ==
  \E answer \in WizardAnswers : Request(answer, "", WizardSeeds, WizardKinds)

NextWizard == ChatWizard \/ PrismaStartWizard \/ PrismaAnswerWizard \/ SessionWelcome

SpecWizard == Init /\ [][NextWizard]_vars

\* ------------------------------------------- generate_daily_plan, called alone

\* Inputs of a direct call: the slots the dialogue can hold, every PRISMA-7 score,
\* a seed or none, and a suggester of each behaviour.
MaxScore == 7
PlanMoods == {"calm", "Tired"}
PlanEnergies == {0, 3, 5, 9, 12}
PlanSteps == {0, 1200, 9000}
PlanSlotKeys == {{}, {"mood"}, {"energy", "steps"}, {"mood", "energy", "steps"}}
Days == {2026307, 2026308}

SlotsOf(keys, mood, energy, steps) ==
  [k \in keys |-> CASE k = "mood" -> mood [] k = "energy" -> energy [] k = "steps" -> steps]

PlanWithExtras ==
  JDict([k \in {"morning", "afternoon", "evening", "notes", "risk"} |->
           CASE k = "notes" -> JList(<<JStr("(auto) Mood: tired"), JStr("Take it easy")>>)
             [] k = "risk" -> JStr("high")
             [] OTHER -> JList(<<JStr("Walk")>>)])

PlanOddExtras ==
  JDict([k \in {"morning", "afternoon", "evening", "notes", "risk"} |->
           CASE k = "notes" -> JStr("none")
             [] k = "risk" -> JStr("severe")
             [] OTHER -> JList(<<>>)])

PlanUnhashableRisk ==
  JDict([k \in {"morning", "afternoon", "evening", "risk"} |->
           CASE k = "risk" -> JList(<<JStr("low")>>)
             [] OTHER -> JList(<<JStr("Walk")>>)])

SuggesterKinds ==
  {"absent", "raises", "none", "empty", "nondict", "missing", "nonstring", "notalist",
   "valid", "extras", "oddextras", "unhashable"}

Suggester(kind) ==
  CASE kind = "absent" -> None
    [] kind = "raises" -> Some([raises |-> TRUE, ret |-> JNull])
    [] kind = "none" -> Some([raises |-> FALSE, ret |-> JNull])
    [] kind = "extras" -> Some([raises |-> FALSE, ret |-> PlanWithExtras])
    [] kind = "oddextras" -> Some([raises |-> FALSE, ret |-> PlanOddExtras])
    [] kind = "unhashable" -> Some([raises |-> FALSE, ret |-> PlanUnhashableRisk])
    [] OTHER -> Some([raises |-> FALSE, ret |-> LLMReturn(kind)])

\* The arguments of one direct call, waiting to be applied.
InitPlan ==
  /\ store = Unused /\ threads = Unused /\ snapshot = Unused
  /\ st = new_session
  /\ parsed = <<>>
  /\ today \in Days
  /\ \E keys \in PlanSlotKeys, mood \in PlanMoods, energy \in PlanEnergies,
        steps \in PlanSteps, score \in 0 .. MaxScore + 1, sd \in 0 .. MaxSeed + 1,
        kind \in SuggesterKinds :
       call = [op |-> "pending",
               slots |-> SlotsOf(keys, mood, energy, steps),
               frailty_score |-> IF score > MaxScore THEN None ELSE Some(score),
               kind |-> kind,
               seed |-> IF sd > MaxSeed THEN None ELSE Some(sd),
               day |-> today,
               out |-> [raised |-> FALSE, plan |-> EmptyDict]]

\* generate_daily_plan(slots, frailty_score, llm_suggester, seed)
GeneratePlan ==
  /\ call.op = "pending"
  /\ call' = [call EXCEPT
                !.op = "generate_daily_plan",
                !.day = today,
                !.out = generate_daily_plan(call.slots, call.frailty_score,
                                            Suggester(call.kind), call.seed)]
  /\ UNCHANGED <<st, parsed, today>> /\ UNCHANGED Elsewhere

\* The day-of-year clock moves on to the next day.
DayPasses ==
  /\ today + 1 \in Days
  /\ today' = today + 1
  /\ UNCHANGED <<st, parsed, call>> /\ UNCHANGED Elsewhere

NextPlan == GeneratePlan \/ DayPasses

SpecPlan == InitPlan /\ [][NextPlan]_vars

\* ------------------------------------------------------------------ properties

IsListOfStrings(x) ==
  /\ DOMAIN x = 1 .. Len(x)
  /\ \A i \in DOMAIN x : x[i] \in STRING

HasPlanLists(plan) ==
  \A k \in {"morning", "afternoon", "evening"} :
    k \in DOMAIN plan /\ IsListOfStrings(plan[k])

RequiredSlots == {DEFAULT_REQUIRED_SLOTS[i] : i \in DOMAIN DEFAULT_REQUIRED_SLOTS}

\* The node the graph enters after classify_intent when a question is outstanding.
HandlerOf(awaiting) ==
  CASE awaiting = "confirm_checkin" -> "handle_checkin_confirmation"
    [] awaiting = "prisma" -> "continue_prisma"
    [] awaiting = "post_checkin" -> "handle_post_checkin"
    [] awaiting = "after_plan" -> "handle_after_plan"
    [] awaiting \in SlotAwaits -> "collect_slot_answer"

\* C1: from every session state reachable through chat turns and for every
\* message, white space and garbage included, one pass classify_intent ->
\* handler -> compose_reply completes without raising and ends with a
\* non-empty reply.
C1_EveryTurnCompletesWithReply ==
  \A message \in Messages :
    \A g \in Runs(st, message, StableSeeds, LLMKinds) :
      g.exc = "" /\ g.reply # ""

\* C2: whenever awaiting is non-null at the start of a turn, classify_intent
\* routes the message to the handler of that awaiting value whatever the text
\* is; a check-in trigger, greeting or slot keyword starts no fresh intent.
C2_AwaitingRoutesToHandler ==
  st.awaiting # "None" =>
    \A message \in Messages :
      \A g \in Runs(st, message, StableSeeds, LLMKinds) :
        /\ Len(g.route) >= 2
        /\ g.route[1] = "classify_intent"
        /\ g.route[2] = HandlerOf(st.awaiting)

\* A slot question is outstanding, the last turn was routed to its handler,
\* and the check-in trigger phrase sent now is again routed to that handler.
C2_Witness ==
  /\ st.asked = "slot:energy"
  /\ st.awaiting = "slot:steps"
  /\ Len(st.route) >= 2
  /\ st.route[2] = "collect_slot_answer"
  /\ CHECKIN_RX(lower(MsgDailyCheckin))
  /\ \A g \in Runs(st, MsgDailyCheckin, StableSeeds, LLMKinds) :
       g.route[2] = "collect_slot_answer" /\ g.awaiting = "slot:steps"

\* C3: while awaiting = prisma, a message that does not parse as yes/no leaves
\* prisma_index and every recorded entry of prisma_answers unchanged, keeps
\* awaiting = prisma, and the reply re-asks the question at the same index.
C3_UnparseableAnswerReasks ==
  st.awaiting = "prisma" =>
    \A message \in WizardMessages :
      _yn(message) = None =>
        \A g \in Runs(st, message, WizardSeeds, WizardKinds) :
          /\ g.exc = ""
          /\ g.prisma_index = st.prisma_index
          /\ g.prisma_answers = st.prisma_answers
          /\ g.awaiting = "prisma"
          /\ g.reply = "Q" \o ToString(st.prisma_index + 1) \o ": "
                       \o PRISMA_QUESTIONS[st.prisma_index + 1].question

\* Three answers are recorded, the last turn was an answer that did not parse
\* (question 4 was asked again, nothing was recorded), and the wizard still waits.
C3_Witness ==
  /\ st.asked = "prisma"
  /\ st.awaiting = "prisma"
  /\ "continue_prisma" \in Range(st.route)
  /\ st.prisma_index = 3
  /\ Len(parsed) = 3
  /\ DOMAIN st.prisma_answers = {"over_85", "male", "limit_activities"}
  /\ st.reply = "Q4: " \o PRISMA_QUESTIONS[4].question
  /\ \E message \in WizardMessages :
       _yn(message) = None /\ st \in Turns(st, message, WizardSeeds, WizardKinds)

\* The answers a run of seven yes/no answers records, by question key.
AnswersOf(history) ==
  [k \in {PRISMA_ORDER[i] : i \in 1 .. Len(history)} |->
     history[CHOOSE i \in 1 .. Len(history) : PRISMA_ORDER[i] = k]]

WizardTurn == "continue_prisma" \in Range(st.route)

\* C4: after a wizard start the wizard completes exactly on the turn carrying
\* the 7th parseable yes/no answer, messages that do not parse not counting:
\* on that turn and not earlier awaiting becomes post_checkin and
\* frailty_score is prisma7_score of the seven answers of that run.
C4_CompletesOnSeventhAnswer ==
  /\ st.awaiting = "prisma" => Len(parsed) < Len(PRISMA_QUESTIONS)
  /\ WizardTurn =>
       /\ Len(parsed) <= Len(PRISMA_QUESTIONS)
       /\ st.awaiting = "post_checkin" <=> Len(parsed) = Len(PRISMA_QUESTIONS)
       /\ st.awaiting # "post_checkin" => st.awaiting = "prisma"
       /\ st.awaiting = "post_checkin" =>
            /\ st.prisma_answers = AnswersOf(parsed)
            /\ st.frailty_score # None
            /\ st.frailty_score = prisma7_score(Bools(AnswersOf(parsed)))

\* The wizard has just completed on a seventh answer after a run that also
\* held messages which did not parse; the score is that of a mixed run.
C4_Witness ==
  /\ WizardTurn
  /\ st.asked = "prisma"
  /\ st.awaiting = "post_checkin"
  /\ Len(parsed) = 7
  /\ parsed = <<TRUE, FALSE, TRUE, FALSE, TRUE, FALSE, TRUE>>
  /\ st.frailty_score = Some(5)

OfferText ==
  "Hi! Want to do your daily check-in now? It is 7 quick yes/no questions and takes about a minute."

\* C5: on a freshly created session "hello" produces the check-in offer and
\* sets awaiting = confirm_checkin; "yes" next starts the wizard at question 1
\* with awaiting = prisma, prisma_index = 0 and prisma_answers empty.
C5_HelloThenYesStartsWizard ==
  st = new_session =>
    \A a \in Turns(st, Say(<<"hello">>), WizardSeeds, WizardKinds) :
      /\ a.exc = ""
      /\ a.reply = OfferText
      /\ a.awaiting = "confirm_checkin"
      /\ \A b \in Turns(a, Say(<<"yes">>), WizardSeeds, WizardKinds) :
           /\ b.exc = ""
           /\ b.awaiting = "prisma"
           /\ b.prisma_index = 0
           /\ b.prisma_answers = EmptyDict
           /\ b.reply = "Great - daily check-in Q1: " \o PRISMA_QUESTIONS[1].question

\* The session that was greeted from fresh and answered yes: the wizard waits at
\* question 1 and nothing else of the session has been touched.
C5_Witness ==
  /\ st.asked = "confirm_checkin"
  /\ st.route = << "classify_intent", "handle_checkin_confirmation",
                   "start_prisma", "compose_reply" >>
  /\ st \in UNION {Turns(a, Say(<<"yes">>), WizardSeeds, WizardKinds) :
                     a \in Turns(new_session, Say(<<"hello">>), WizardSeeds, WizardKinds)}
  /\ st.awaiting = "prisma"
  /\ st.prisma_index = 0

AllNoButSomeoneClose ==
  [i \in DOMAIN PRISMA_QUESTIONS |-> PRISMA_QUESTIONS[i].key = "someone_close"]

\* C6: a wizard run answered "no" to every question except "count on someone
\* close", answered "yes", ends with frailty_score = 0, and the risk band
\* derived from that score is "low".
C6_AllNoButSomeoneCloseScoresZero ==
  (WizardTurn /\ st.awaiting = "post_checkin" /\ parsed = AllNoButSomeoneClose) =>
    /\ st.frailty_score = Some(0)
    /\ _risk_from_score(st.frailty_score) = "low"

\* That run has just completed.
C6_Witness ==
  /\ WizardTurn
  /\ st.asked = "prisma"
  /\ st.awaiting = "post_checkin"
  /\ parsed = <<FALSE, FALSE, FALSE, FALSE, FALSE, TRUE, FALSE>>
  /\ st.prisma_answers["someone_close"]
  /\ st.frailty_score = Some(0)

\* C7: right after the wizard completes (awaiting = post_checkin) the message
\* "I'm tired, energy 3, steps 1200" fills all three slots in that turn and the
\* same turn ends with a generated plan (awaiting = after_plan), no follow-up
\* slot question being asked.
C7_OneMessageFillsSlotsAndPlans ==
  (WizardTurn /\ st.awaiting = "post_checkin") =>
    \A g \in Runs(st, MsgTiredEnergy3Steps1200, StableSeeds, LLMKinds) :
      /\ g.exc = ""
      /\ RequiredSlots \subseteq DOMAIN g.slots
      /\ g.slots["mood"] = "tired"
      /\ g.slots["energy"] = 3
      /\ g.slots["steps"] = 1200
      /\ "plan_routine" \in Range(g.route)
      /\ g.awaiting = "after_plan"

\* C8: in every turn in which slot handling finds all required slots present
\* and clears awaiting (idle slot path, slot answer, post_checkin or after_plan
\* handler) the plan is regenerated in that turn and the turn ends with
\* awaiting = after_plan.
C8_SlotsCompleteRegeneratesPlan ==
  (st.exc = "" /\ "ensure_slots" \in Range(st.route)
     /\ RequiredSlots \subseteq DOMAIN st.slots) =>
    /\ "plan_routine" \in Range(st.route)
    /\ st.awaiting = "after_plan"

\* C9: whenever the reply delivered at the end of a turn is a rendered plan,
\* state.plan holds risk in {low, moderate, high} and morning, afternoon and
\* evening as lists of strings.
C9_RenderedPlanIsComplete ==
  (st.exc = "" /\ "compose_reply" \in Range(st.route)
     /\ st.reply = RenderPlan(st.plan, st.awaiting)) =>
    /\ "risk" \in DOMAIN st.plan
    /\ st.plan["risk"] \in Risks
    /\ HasPlanLists(st.plan)

\* C10: generate_daily_plan never raises and always returns a plan whose
\* morning, afternoon and evening are lists of strings, whether the suggester is
\* absent, raises, returns None, a non-dict, a dict without the lists, or a
\* valid plan.
C10_PlanAlwaysWellFormed ==
  call.op = "generate_daily_plan" =>
    /\ ~call.out.raised
    /\ HasPlanLists(call.out.plan)

\* A raising suggester was passed and the fallback plan came back.
C10_Witness ==
  /\ call.op = "generate_daily_plan"
  /\ call.kind = "raises"
  /\ ~call.out.raised
  /\ call.out.plan = _fallback_plan(call.slots, call.frailty_score, call.seed)
  /\ Len(call.out.plan.morning) = 3

\* Suggester replies that make generate_daily_plan fall back to the rules.
FailingKinds == {"empty", "nondict", "missing", "nonstring"}

MsgSwap == Say(<<"swap">>)

\* C11: with the fallback planner in use, "swap" while awaiting = after_plan
\* increases plan_seed by exactly 1 and the regenerated plan differs from the
\* previous plan in at least one line, slots and frailty score unchanged.
C11_SwapBumpsSeedAndChangesPlan ==
  st.awaiting = "after_plan" =>
    \A g \in Runs(st, MsgSwap, StableSeeds, FailingKinds) :
      /\ g.exc = ""
      /\ st.plan_seed # None
      /\ g.plan_seed = Some(The(st.plan_seed) + 1)
      /\ g.slots = st.slots
      /\ g.frailty_score = st.frailty_score
      /\ g.plan = _fallback_plan(g.slots, g.frailty_score, g.plan_seed)
      /\ \E k \in {"morning", "afternoon", "evening"} :
           \E i \in DOMAIN g.plan[k] :
             i \notin DOMAIN st.plan[k] \/ g.plan[k][i] # st.plan[k][i]

\* A swap has been handled on top of a fallback plan for filled slots: the seed
\* is past every seed of the day and the plan is the fallback plan for it.
C11_Witness ==
  /\ st.asked = "after_plan"
  /\ st.awaiting = "after_plan"
  /\ "handle_after_plan" \in Range(st.route)
  /\ "plan_routine" \in Range(st.route)
  /\ st.plan_seed = Some(3)
  /\ RequiredSlots \subseteq DOMAIN st.slots
  /\ st.plan = _fallback_plan(st.slots, st.frailty_score, st.plan_seed)
  /\ st.plan # _fallback_plan(st.slots, st.frailty_score, Some(2))

\* "swap" in txt or "different" in txt or "variety" in txt
IsVarietyRequest(message) ==
  LET txt == lower(message) IN
  HasSub(txt, "swap") \/ HasSub(txt, "different") \/ HasSub(txt, "variety")

\* C12: plan_seed is assigned once, at the first plan generation, and never
\* decreases or is reset afterwards: it changes only by +1, and only in a turn
\* handling a variety request while awaiting = after_plan.
C12_PlanSeedOnlyIncrements ==
  \A message \in Messages \cup Answers :
    \A g \in Runs(st, message, StableSeeds, LLMKinds) :
      IF st.plan_seed = None
      THEN g.plan_seed = None
           \/ ("plan_routine" \in Range(g.route) /\ g.plan_seed \in {Some(n) : n \in StableSeeds})
      ELSE \/ g.plan_seed = st.plan_seed
           \/ /\ g.plan_seed = Some(The(st.plan_seed) + 1)
              /\ st.awaiting = "after_plan"
              /\ IsVarietyRequest(message)

\* The seed stands one above the seeds of the day after a turn at after_plan,
\* and a message that asks for no variety leaves it where it is.
C12_Witness ==
  /\ st.asked = "after_plan"
  /\ "plan_routine" \in Range(st.route)
  /\ st.plan_seed = Some(3)
  /\ \A g \in Runs(st, MsgTiredEnergy3Steps1200, StableSeeds, LLMKinds) :
       g.plan_seed = st.plan_seed

\* ------------------------------------------------- prisma7_score, called alone

PrismaKeys == {PRISMA_ORDER[i] : i \in DOMAIN PRISMA_ORDER}

\* What one answer of a set can be instead of a bool: absent, None, a word that
\* is no yes/no, a number that is no 0/1, a list, or a boolean-like string or int.
OddKinds == {"absent", "null", "maybe", "two", "list", "yes", "NO", "one", "zero"}

OddValue(kind) ==
  CASE kind = "null" -> JNull
    [] kind = "maybe" -> JStr("maybe")
    [] kind = "two" -> JNum(2)
    [] kind = "list" -> JList(<<>>)
    [] kind = "yes" -> JStr(" yes ")
    [] kind = "NO" -> JStr("NO")
    [] kind = "one" -> JNum(1)
    [] kind = "zero" -> JNum(0)

\* The answer set `base` with the answer for `key` replaced by an odd one
\* (key = "" replaces none).
AnswerSet(base, key, kind) ==
  [k \in (IF kind = "absent" THEN PrismaKeys \ {key} ELSE PrismaKeys) |->
     IF k = key THEN OddValue(kind) ELSE JBool(base[k])]

InitScore ==
  /\ store = Unused /\ threads = Unused /\ snapshot = Unused
  /\ st = new_session
  /\ parsed = <<>>
  /\ today \in Days
  /\ \E base \in [PrismaKeys -> BOOLEAN], key \in PrismaKeys \cup {""}, kind \in OddKinds :
       call = [op |-> "to_score", answers |-> AnswerSet(base, key, kind), out |-> None]

\* prisma7_score(answers)
Score ==
  /\ call.op = "to_score"
  /\ call' = [call EXCEPT !.op = "prisma7_score", !.out = prisma7_score(call.answers)]
  /\ UNCHANGED <<st, parsed, today>> /\ UNCHANGED Elsewhere

NextScore == Score

SpecScore == InitScore /\ [][NextScore]_vars

IsCompleteBoolean(answers) ==
  /\ DOMAIN answers = PrismaKeys
  /\ \A k \in PrismaKeys : answers[k].t = "bool"

\* C13: for each of the 128 complete boolean answer sets prisma7_score returns
\* the number of true answers among the six normal keys plus 1 if
\* someone_close is false; the result lies in 0..7; flipping only
\* someone_close from false to true lowers the score by exactly 1, flipping
\* any normal key from false to true raises it by exactly 1.
C13_ScoreCountsWithReverseKey ==
  (call.op = "prisma7_score" /\ IsCompleteBoolean(call.answers)) =>
    LET a == call.answers
        expected == Cardinality({k \in PrismaKeys \ {"someone_close"} : a[k].b})
                    + (IF a["someone_close"].b THEN 0 ELSE 1)
    IN /\ call.out = Some(expected)
       /\ expected \in 0 .. 7
       /\ \A k \in PrismaKeys :
            ~a[k].b =>
              prisma7_score([a EXCEPT ![k] = JBool(TRUE)])
                = Some(IF k = "someone_close" THEN expected - 1 ELSE expected + 1)

\* The set with every normal key true and someone_close false has been scored 7.
C13_Witness ==
  /\ call.op = "prisma7_score"
  /\ IsCompleteBoolean(call.answers)
  /\ \A k \in PrismaKeys : call.answers[k].b = (k # "someone_close")
  /\ call.out = Some(7)

\* C14: prisma7_score of an answer set in which any of the 7 keys is missing,
\* or maps to a value that does not normalize to a boolean, is None and never
\* a number.
C14_IncompleteScoresNone ==
  call.op = "prisma7_score" =>
    /\ (\E k \in PrismaKeys :
          IF k \notin DOMAIN call.answers THEN TRUE
          ELSE _normalize_bool(call.answers[k]) = None)
       => call.out = None
    /\ call.out # None =>
         \A k \in PrismaKeys :
           /\ k \in DOMAIN call.answers
           /\ call.answers[k].t \notin {"null", "list", "dict"}
           /\ call.answers[k].t = "str" => call.answers[k].s # "maybe"
           /\ call.answers[k].t = "num" => call.answers[k].n \in {0, 1}

\* A set whose "male" answer is the word "maybe" has been scored None, and so
\* has a set that lacks the key.
C14_Witness ==
  /\ call.op = "prisma7_score"
  /\ call.out = None
  /\ "male" \in DOMAIN call.answers
  /\ call.answers["male"].t = "str"
  /\ call.answers["male"].s = "maybe"
  /\ prisma7_score([k \in PrismaKeys \ {"male"} |-> call.answers[k]]) = None

\* ------------------------------------------------ livewell-e: PRISMA-7 scoring

\* tools/frailty.py _KEYS
lw_KEYS ==
  << "over_85", "male", "health_problems_limit_activities", "need_help_regularly",
     "health_problems_stay_home", "count_on_someone_close",
     "use_stick_walker_wheelchair" >>

lw_KeySet == {lw_KEYS[i] : i \in DOMAIN lw_KEYS}

\* _get(inputs, key): the attribute of a Prisma7 model, or inputs.get(key, False).
lw_get(inputs, key) == IF key \in DOMAIN inputs THEN inputs[key] ELSE FALSE

\* prisma7_score(inputs, threshold=3) of the variant: (score, band).
lw_prisma7_score(inputs, threshold) ==
  LET score == Cardinality({i \in DOMAIN lw_KEYS : lw_get(inputs, lw_KEYS[i])})
  IN [score |-> score, band |-> IF score >= threshold THEN "potential_frail" ELSE "low"]

lw_Threshold == 3

\* The seven answers of one request: the body of POST /assessments/prisma7, or
\* the answers the wizard holds when it finalizes.
InitAssess ==
  /\ store = Unused /\ threads = Unused /\ snapshot = Unused
  /\ st = new_session
  /\ parsed = <<>>
  /\ today \in Days
  /\ \E answers \in [lw_KeySet -> BOOLEAN], op \in {"to_assess", "to_finalize"} :
       call = [op |-> op, answers |-> answers, out |-> [score |-> 0, band |-> ""]]

\* POST /assessments/prisma7
AssessPrisma7 ==
  /\ call.op = "to_assess"
  /\ call' = [call EXCEPT !.op = "assess_prisma7",
                          !.out = lw_prisma7_score(call.answers, lw_Threshold)]
  /\ UNCHANGED <<st, parsed, today>> /\ UNCHANGED Elsewhere

\* continue_prisma of the variant on the last answer: payload from answers.get.
FinalizePrisma ==
  /\ call.op = "to_finalize"
  /\ LET payload == [k \in lw_KeySet |-> lw_get(call.answers, k)]
     IN call' = [call EXCEPT !.op = "finalize",
                             !.out = lw_prisma7_score(payload, lw_Threshold)]
  /\ UNCHANGED <<st, parsed, today>> /\ UNCHANGED Elsewhere

NextAssess == AssessPrisma7 \/ FinalizePrisma

SpecAssess == InitAssess /\ [][NextAssess]_vars

\* C15: the variant's standalone scoring endpoint, and the wizard finalization
\* using the same scorer, score "count on someone close" reverse-coded: yes
\* gives 0 points and no gives 1 point, each of the other six questions gives
\* 1 point on yes.
C15_VariantReverseCodesSomeoneClose ==
  call.op \in {"assess_prisma7", "finalize"} =>
    call.out.score =
      Cardinality({k \in lw_KeySet \ {"count_on_someone_close"} : call.answers[k]})
      + (IF call.answers["count_on_someone_close"] THEN 0 ELSE 1)

C17_SlotValuesStayInRange ==
  /\ "mood" \in DOMAIN st.slots =>
       st.slots["mood"] \in STRING /\ Lower(st.slots["mood"]) = st.slots["mood"]
  /\ "energy" \in DOMAIN st.slots => st.slots["energy"] \in 0 .. 10
  /\ "steps" \in DOMAIN st.slots => st.slots["steps"] \in Nat
  /\ \A message \in Messages \cup Answers :
       \A g \in Runs(st, message, StableSeeds, LLMKinds) :
         DOMAIN st.slots \subseteq DOMAIN g.slots

\* The mood question was answered "Hello", stored in lower case; an energy
\* answer of 1200 was clamped to 10 and steps were given.
C17_Witness ==
  /\ DOMAIN st.slots = {"mood", "energy", "steps"}
  /\ st.slots["mood"] = "hello"
  /\ st.slots["energy"] = 10
  /\ st.slots["steps"] = 1200
  /\ st.asked = "slot:steps"
  /\ "collect_slot_answer" \in Range(st.route)

PostCheckinMenu ==
  "I can draft a quick plan (say yes), or we can log mood, energy (0-10), or steps. What would you like?"

AfterPlanMenu == "Say easier/harder/swap, motivate, or log mood/energy/steps."

\* A message in none of the vocabularies the post_checkin / after_plan handlers
\* recognize: restart, a mood, thanks, a plan request, a tweak, a fact to log,
\* a request for motivation.
Unrecognized(message, awaiting) ==
  LET low == lower(message) IN
  /\ ~CHECKIN_RX(low)
  /\ ~RESTART_RX(low)
  /\ _extract_mood_from_text(message) = None
  /\ ~TextIn(low, PostMenuWords)
  /\ ~MOTIVATE_RX(low)
  /\ ~TextIn(low, MotivateWords)
  /\ ~MentionsSlot(low)
  /\ ~IsBareNumber(low)
  /\ IF awaiting = "post_checkin"
     THEN ~(\/ TextIn(low, YES) \/ HasSub(low, "plan") \/ HasPhrase(low, "go", "ahead")
            \/ HasPhrase(low, "make", "it") \/ HasSub(low, "draft"))
     ELSE ~(\/ HasSub(low, "easier") \/ HasSub(low, "lighter") \/ HasSub(low, "harder")
            \/ HasSub(low, "tougher") \/ IsVarietyRequest(message))

\* C18: while awaiting = post_checkin or after_plan a message outside the
\* recognized vocabulary produces the menu re-prompt, keeps awaiting at the
\* same value, and leaves slots, plan, plan_seed, frailty_score,
\* prisma_answers and prisma_index unchanged.
C18_UnrecognizedInputReprompts ==
  st.awaiting \in {"post_checkin", "after_plan"} =>
    \A message \in Messages \cup Answers :
      Unrecognized(message, st.awaiting) =>
        \A g \in Runs(st, message, StableSeeds, LLMKinds) :
          /\ g.exc = ""
          /\ g.reply = (IF st.awaiting = "post_checkin" THEN PostCheckinMenu
                        ELSE AfterPlanMenu)
          /\ g.awaiting = st.awaiting
          /\ g.slots = st.slots
          /\ g.plan = st.plan
          /\ g.plan_seed = st.plan_seed
          /\ g.frailty_score = st.frailty_score
          /\ g.prisma_answers = st.prisma_answers
          /\ g.prisma_index = st.prisma_index

\* A turn at after_plan ended with the menu, and a blank message sent now is
\* unrecognized and answered with the menu again.
C18_Witness ==
  /\ st.asked = "after_plan"
  /\ st.awaiting = "after_plan"
  /\ st.route = << "classify_intent", "handle_after_plan", "compose_reply" >>
  /\ st.reply = AfterPlanMenu
  /\ st.plan # EmptyDict
  /\ Unrecognized(<<>>, st.awaiting)
  /\ st \in Turns(st, <<>>, StableSeeds, LLMKinds)

\* ------------------------------------------------ the transcript of a session

\* The longest transcript followed, in entries.
MaxTranscript == 6

TranscriptMessages ==
  { <<>>, Say(<<"Hello">>), Say(<<"yes">>), Say(<<"swap">>),
    << Num(<<1, 2, 0, 0>>) >> }

\* POST /chat, the transcript kept.
ChatTranscript ==
  /\ Len(st.messages) + 2 <= MaxTranscript
  /\ \E message \in TranscriptMessages :
       \E g \in Runs(st, message, WizardSeeds, WizardKinds) :
         /\ st' \in Stored(st, message, g, "Okay.")
         /\ parsed' = Parsed(g, parsed)
  /\ UNCHANGED <<today, call>> /\ UNCHANGED Elsewhere

\* POST /session/welcome, the transcript kept.
SessionWelcomeTranscript ==
  /\ Len(st.messages) + 1 <= MaxTranscript
  /\ st' = add_assistant_message(
             [st EXCEPT !.awaiting = "confirm_checkin",
                        !.asked = st.awaiting, !.route = <<"session_welcome">>,
                        !.exc = ""],
             WelcomeText)
  /\ UNCHANGED <<parsed, today, call>> /\ UNCHANGED Elsewhere

NextTranscript == ChatTranscript \/ SessionWelcomeTranscript

SpecTranscript == Init /\ [][NextTranscript]_vars

\* C19: every /chat turn that completes leaves the transcript it found, in the
\* same order, followed by exactly one user entry holding the request message
\* and then exactly one assistant entry holding the reply the endpoint returns.
C19_CompletedTurnAppendsUserThenAssistant ==
  \A message \in TranscriptMessages :
    \A g \in Runs(st, message, WizardSeeds, WizardKinds) :
      g.exc = "" =>
        \A s \in Stored(st, message, g, "Okay.") :
          s.messages = st.messages \o
            << UserEntry(message),
               AssistantEntry(IF g.reply # "" THEN g.reply ELSE "Okay.") >>

\* A second completed turn: two earlier entries, then the user entry and the
\* assistant entry carrying the reply.
C19_Witness ==
  /\ st.exc = ""
  /\ Len(st.messages) = 4
  /\ st.route # <<"session_welcome">>
  /\ st.messages[3].role = "user"
  /\ st.messages[3].said = Say(<<"yes">>)
  /\ st.messages[4] = AssistantEntry(st.reply)

\* What the program keeps of a session: the fields of the stored dict.
Session(state) ==
  [messages |-> state.messages,
   reply |-> state.reply,
   label |-> state.label,
   slots |-> state.slots,
   awaiting |-> state.awaiting,
   prisma_answers |-> state.prisma_answers,
   prisma_index |-> state.prisma_index,
   frailty_score |-> state.frailty_score,
   plan |-> state.plan,
   plan_seed |-> state.plan_seed]

\* C20: a /chat turn in which the graph raises leaves the stored session as it
\* was before the turn: no user entry appended, no field changed.
C20_FailedTurnLeavesSessionUnchanged ==
  \A message \in TranscriptMessages :
    \A g \in Runs(st, message, WizardSeeds, WizardKinds) :
      g.exc # "" =>
        \A s \in Stored(st, message, g, "Okay.") : Session(s) = Session(st)

\* -------------------------------------------- the fallback planner, continued

\* C22: without a suggester and with a seed, generate_daily_plan gives the same
\* plan whenever it is called again with the same slots, score and seed, also
\* on a later day, and the call leaves the slots it was given as they were.
C22_SeededFallbackIsDeterministic ==
  [][ /\ (call.op = "pending" /\ call'.op = "generate_daily_plan") =>
           call'.slots = call.slots
      /\ ((call.op = "generate_daily_plan" /\ call.kind = "absent"
            /\ call.seed # None) =>
           generate_daily_plan(call.slots, call.frailty_score,
                               Suggester(call.kind), call.seed) = call.out)'
    ]_vars

\* A seeded call without a suggester, looked at again a day later.
C22_Witness ==
  /\ call.op = "generate_daily_plan"
  /\ call.kind = "absent"
  /\ call.seed = Some(1)
  /\ call.day # today
  /\ call.out.plan.morning[1] = "4-7-8 breathing (5-7 min)"

\* The first strength line of the afternoon, up to its repetition count.
StrengthLines ==
  {"Chair sit-to-stands x", "Wall push-ups x", "Step-ups to a low step x"}

\* The repetition count the afternoon's first strength line shows.
StrengthReps(plan) ==
  CHOOSE reps \in 0 .. 20 :
    \E line \in StrengthLines : plan.afternoon[1] = line \o ToString(reps)

\* C23: the fallback plan at energy 3 shows strictly fewer strength repetitions
\* in the afternoon than the plan at energy 9 with the same score, steps and
\* seed.
C23_LowEnergyLowersStrengthReps ==
  (/\ call.op = "generate_daily_plan"
   /\ call.kind = "absent"
   /\ "energy" \in DOMAIN call.slots
   /\ call.slots["energy"] = 3) =>
    StrengthReps(call.out.plan) <
      StrengthReps(_fallback_plan([call.slots EXCEPT !["energy"] = 9],
                                  call.frailty_score, call.seed))

C23_Witness ==
  /\ call.op = "generate_daily_plan"
  /\ call.kind = "absent"
  /\ "energy" \in DOMAIN call.slots
  /\ call.slots["energy"] = 3
  /\ call.frailty_score = Some(6)
  /\ call.out.plan.afternoon[1] = "Wall push-ups x5"
  /\ StrengthReps(_fallback_plan([call.slots EXCEPT !["energy"] = 9],
                                 call.frailty_score, call.seed)) = 8

\* ------------------------------------------------- memory.py, several sessions

\* `store` holds the objects the sessions are made of: heap[a] is the content of
\* the list or dict at address a (the entries appended or keys set, in order),
\* sessions[id] is None or the state dict of the id, which refers to its lists
\* and dicts by address, and last names the last operation.
SessionIds == {"a", "b"}

\* The most objects ever allocated.
MaxObjects == 16

\* The module-level list DEFAULT_REQUIRED_SLOTS.
DefaultSlotsObject == 1

Components == {"messages", "slots", "required_slots", "prisma_answers", "plan"}

new_session_shared(heap) ==
  [messages |-> Len(heap) + 1,
   slots |-> Len(heap) + 2,
   required_slots |-> DefaultSlotsObject,
   prisma_answers |-> Len(heap) + 4,
   plan |-> Len(heap) + 5,
   awaiting |-> new_session.awaiting,
   prisma_index |-> new_session.prisma_index,
   frailty_score |-> new_session.frailty_score]

\* new_session() as objects: the dict it returns, given the heap it is built in.
new_session_refs(heap) ==
  [messages |-> Len(heap) + 1,
   slots |-> Len(heap) + 2,
   required_slots |-> Len(heap) + 3,
   prisma_answers |-> Len(heap) + 4,
   plan |-> Len(heap) + 5,
   awaiting |-> new_session.awaiting,
   prisma_index |-> new_session.prisma_index,
   frailty_score |-> new_session.frailty_score]

\* The heap once new_session() has built its lists and dicts: [], {},
\* DEFAULT_REQUIRED_SLOTS.copy(), {}, {}.
new_session_heap(heap) ==
  heap \o << <<>>, <<>>, heap[DefaultSlotsObject], <<>>, <<>> >>

InitStore ==
  /\ st = new_session
  /\ parsed = <<>>
  /\ today = 2026307
  /\ call = NoCall
  /\ threads = Unused /\ snapshot = Unused
  /\ store = [sessions |-> [id \in SessionIds |-> None],
              heap |-> << DEFAULT_REQUIRED_SLOTS >>,
              last |-> [op |-> "none", id |-> "", created |-> FALSE]]

\* get_session(session_id)
GetSession(id) ==
  /\ IF store.sessions[id] = None
     THEN /\ Len(store.heap) + 5 <= MaxObjects
          /\ store' = [sessions |-> [store.sessions EXCEPT
                                       ![id] = Some(new_session_refs(store.heap))],
                       heap |-> new_session_heap(store.heap),
                       last |-> [op |-> "get_session", id |-> id, created |-> TRUE]]
     ELSE store' = [store EXCEPT
                      !.last = [op |-> "get_session", id |-> id, created |-> FALSE]]
  /\ UNCHANGED <<st, parsed, today, call, threads, snapshot>>

\* reset_session(session_id)
ResetSession(id) ==
  /\ Len(store.heap) + 5 <= MaxObjects
  /\ store' = [sessions |-> [store.sessions EXCEPT
                               ![id] = Some(new_session_refs(store.heap))],
               heap |-> new_session_heap(store.heap),
               last |-> [op |-> "reset_session", id |-> id, created |-> TRUE]]
  /\ UNCHANGED <<st, parsed, today, call, threads, snapshot>>

\* What a request does to the dict get_session gave it: add_user_message
\* appends to its messages, the nodes set keys of its slots and prisma_answers
\* in place and assign awaiting and prisma_index.
Write(id, component) ==
  /\ store.sessions[id] # None
  /\ LET s == The(store.sessions[id])
     IN /\ store.heap[s[component]] = <<>>
        /\ store' = [sessions |-> [store.sessions EXCEPT
                                     ![id] = Some([s EXCEPT !.awaiting = "slot:mood",
                                                            !.prisma_index = 1])],
                     heap |-> [store.heap EXCEPT ![s[component]] = << component >>],
                     last |-> [op |-> "write", id |-> id, created |-> FALSE]]
  /\ UNCHANGED <<st, parsed, today, call, threads, snapshot>>

NextStore ==
  \E id \in SessionIds :
    \/ GetSession(id)
    \/ ResetSession(id)
    \/ \E component \in {"messages", "slots", "prisma_answers"} : Write(id, component)

SpecStore == InitStore /\ [][NextStore]_vars

\* The lists and dicts a state dict refers to.
ObjectsOf(s) == {s[component] : component \in Components}

\* C21: the state get_session creates for an id it does not hold, and the one
\* reset_session installs, is freshly initialized (no messages, no slots,
\* awaiting None, no PRISMA answers, index 0, no score, no plan) and shares
\* none of its lists and dicts with the state of another session id.
C21_NewSessionIsFreshAndUnshared ==
  store.last.created =>
    LET s == The(store.sessions[store.last.id])
    IN /\ store.heap[s.messages] = <<>>
       /\ store.heap[s.slots] = <<>>
       /\ s.awaiting = "None"
       /\ store.heap[s.prisma_answers] = <<>>
       /\ s.prisma_index = 0
       /\ s.frailty_score = None
       /\ store.heap[s.plan] = <<>>
       /\ \A other \in SessionIds \ {store.last.id} :
            store.sessions[other] # None =>
              ObjectsOf(The(store.sessions[other])) \cap ObjectsOf(s) = {}

\* A session reset while the other session holds messages and slots.
C21_Witness ==
  /\ store.last.created
  /\ store.last.op = "reset_session"
  /\ \E other \in SessionIds \ {store.last.id} :
       /\ store.sessions[other] # None
       /\ store.heap[The(store.sessions[other]).slots] = << "slots" >>
       /\ store.heap[The(store.sessions[other]).messages] = << "messages" >>

\* ------------------------------------------------------ yes/no answers, continued

\* Longer messages that hold a bare whole word yes, no, y or n, with the
\* answer the word stands for.
BareWordAnswers ==
  { [said |-> Say(<<"yes", "please">>), means |-> TRUE],
    [said |-> Say(<<"no", "thanks">>), means |-> FALSE],
    [said |-> Say(<<"y", "indeed">>), means |-> TRUE],
    [said |-> Say(<<"n", "really">>), means |-> FALSE] }

\* C29: a bare whole word yes, no, y or n inside a longer message is read as
\* that answer: while the wizard waits for an answer, such a message is
\* recorded under the current question and the wizard moves on.
C29_BareWordInLongerMessageIsAnswer ==
  (st.awaiting = "prisma" /\ st.prisma_index < Len(PRISMA_ORDER)) =>
    \A a \in BareWordAnswers :
      /\ _yn(a.said) = Some(a.means)
      /\ \A g \in Runs(st, a.said, WizardSeeds, WizardKinds) :
           /\ g.prisma_index = st.prisma_index + 1
           /\ Get(g.prisma_answers, PRISMA_ORDER[st.prisma_index + 1]) = Some(a.means)

\* --------------------------------------------------- the follow-up menus, "ok"

OkMessages == { Say(<<"ok">>), Say(<<"okay">>) }

\* The follow-up question of each menu.
OkReply(awaiting) ==
  IF awaiting = "post_checkin"
  THEN "Want me to put together a quick plan now (yes/no), or shall we log mood, energy, or steps?"
  ELSE "Want tweaks (say easier/harder/swap), a pep talk (motivate), or log mood/energy/steps?"

\* C26: at post_checkin and at after_plan, "ok" and "okay" are neutral: awaiting
\* keeps its value, the reply is the follow-up question of the menu, and slots,
\* plan and plan_seed are as they were.
C26_OkIsNeutralInFollowUp ==
  st.awaiting \in {"post_checkin", "after_plan"} =>
    \A message \in OkMessages :
      \A g \in Runs(st, message, StableSeeds, LLMKinds) :
        /\ g.awaiting = st.awaiting
        /\ g.reply = OkReply(st.awaiting)
        /\ g.slots = st.slots
        /\ g.plan = st.plan
        /\ g.plan_seed = st.plan_seed

\* ------------------------------------------------ slot answers without a number

\* Answers from which no acceptable integer can be read for the slot: no
\* digits at all, and for steps also a negative number.
UnreadableAnswers(slot) ==
  { <<>>, Say(<<"yes">>), Say(<<"lots">>), Say(<<"I'm", "tired">>),
    << Tok("about"), TokP("ten", ".") >> }
  \cup (IF slot = "steps"
        THEN { << NegNum(<<5>>) >>, << Tok("steps"), NegNum(<<1, 2, 0, 0>>) >> }
        ELSE {})

\* C27: while an energy or steps answer is awaited, an answer from which no
\* acceptable integer can be read leaves the slots as they were, keeps awaiting
\* at that slot, and the reply asks for that slot again.
C27_UnreadableNumberReasksSameSlot ==
  st.awaiting \in {"slot:energy", "slot:steps"} =>
    \A message \in UnreadableAnswers(SlotOf(st.awaiting)) :
      \A g \in Runs(st, message, StableSeeds, LLMKinds) :
        /\ g.exc = ""
        /\ g.slots = st.slots
        /\ g.awaiting = st.awaiting
        /\ g.reply = EnsureQuestion(SlotOf(st.awaiting))

\* A steps answer without digits was just turned down; a negative one would be
\* turned down next.
C27_Witness ==
  /\ st.exc = ""
  /\ st.asked = "slot:steps"
  /\ st.awaiting = "slot:steps"
  /\ "collect_slot_answer" \in Range(st.route)
  /\ DOMAIN st.slots = {"mood", "energy"}
  /\ st.reply = EnsureQuestion("steps")
  /\ \E s \in Turns(st, << NegNum(<<5>>) >>, StableSeeds, LLMKinds) :
       s.awaiting = "slot:steps" /\ s.slots = st.slots

\* ------------------------------------------------- answers to the check-in offer

\* Answers that decline the offer, and answers that are neither a yes nor a no.
Declines ==
  { Say(<<"no">>), Say(<<"not", "now">>), Say(<<"later">>), Say(<<"skip">>),
    Say(<<"nope">>), Say(<<"n">>) }

NeitherYesNorNo ==
  OkMessages \cup { <<>>, Say(<<"hello">>), Say(<<"maybe">>), Say(<<"yes", "please">>),
                    MsgDailyCheckin }

ConfirmQuestion == "Would you like to start your daily check-in now? (yes/no)"

\* C28: while the check-in offer is open, a no clears awaiting and leaves the
\* PRISMA answers, index and score alone; an answer that is neither a yes nor
\* a no ("ok" and "okay" among them) keeps the offer open, asks the
\* confirmation question again and does not start the wizard.
C28_DeclineClearsAndUnknownReasks ==
  st.awaiting = "confirm_checkin" =>
    \A message \in Declines \cup NeitherYesNorNo :
      \A g \in Runs(st, message, WizardSeeds, WizardKinds) :
        /\ message \in Declines =>
             /\ g.exc = ""
             /\ g.awaiting = "None"
             /\ g.prisma_answers = st.prisma_answers
             /\ g.prisma_index = st.prisma_index
             /\ g.frailty_score = st.frailty_score
        /\ message \in NeitherYesNorNo =>
             /\ g.exc = ""
             /\ g.awaiting = "confirm_checkin"
             /\ g.reply = ConfirmQuestion
             /\ "start_prisma" \notin Range(g.route)
             /\ g.prisma_answers = st.prisma_answers
             /\ g.prisma_index = st.prisma_index
             /\ g.frailty_score = st.frailty_score

\* The offer was just declined in a session that holds a finished check-in;
\* the state before it would have kept the offer open on "ok".
C28_Witness ==
  /\ st.asked = "confirm_checkin"
  /\ st.route = <<"classify_intent", "handle_checkin_confirmation", "compose_reply">>
  /\ st.awaiting = "None"
  /\ st.frailty_score # None
  /\ st.prisma_index = Len(PRISMA_ORDER)
  /\ \E s \in Turns([st EXCEPT !.awaiting = "confirm_checkin"], Say(<<"ok">>),
                     WizardSeeds, WizardKinds) :
       s.awaiting = "confirm_checkin" /\ s.reply = ConfirmQuestion

\* ----------------------------------------- two /chat requests of one session

\* `threads` holds the two requests: where each is in chat() (start, got the
\* session, added its message, ran the graph, done; failed when the graph
\* raised), the message it carries and the reply it returned.  get_session gives
\* both the dict _SESSIONS holds, `st`; the graph, compiled over a plain dict,
\* works on the dict it is given and returns it.
Threads == {1, 2}

RaceMessages == { Say(<<"Hello">>), MsgDailyCheckin, << Num(<<1, 2, 0, 0>>) >> }

\* The words of a reply, for a node that reads it as messages[-1]["content"].
Spoken(text) ==
  CASE text = "Okay." -> << TokP("Okay", ".") >>
    [] text = OfferText ->
         << TokP("Hi", "!"), Tok("Want"), Tok("to"), Tok("do"), Tok("your"),
            Tok("daily"), Tok("check-in"), TokP("now", "?"), Tok("It"), Tok("is"),
            Num(<<7>>), Tok("quick"), TokP("yes", "/"), Tok("no"), Tok("questions"),
            Tok("and"), Tok("takes"), Tok("about"), Tok("a"), TokP("minute", ".") >>
    [] text = EnsureQuestion("mood") ->
         << Tok("How's"), Tok("your"), Tok("mood"), Tok("today"), TokP("(e.g", ".,"),
            TokP("good", "/"), TokP("okay", "/"), TokP("low", ")?") >>
    [] text = "Great - daily check-in Q1: Are you over 85? (yes/no)" ->
         << Tok("Great"), Tok("-"), Tok("daily"), Tok("check-in"), TokP("Q1", ":"),
            Tok("Are"), Tok("you"), Tok("over"), NumP(<<8, 5>>, "?"),
            TokP("(yes", "/"), TokP("no", ")") >>
    [] text = "Q1: Are you over 85? (yes/no)" ->
         << TokP("Q1", ":"), Tok("Are"), Tok("you"), Tok("over"), NumP(<<8, 5>>, "?"),
            TokP("(yes", "/"), TokP("no", ")") >>

\* messages[-1]["content"], what every node reads as the user's message.
LastContent(state) ==
  LET last == state.messages[Len(state.messages)]
  IN IF last.role = "user" THEN last.said ELSE Spoken(last.text)

InitRace ==
  /\ st = new_session
  /\ parsed = <<>>
  /\ today = 2026307
  /\ call = NoCall
  /\ store = Unused /\ snapshot = Unused
  /\ threads \in [Threads -> [pc : {"start"}, message : RaceMessages, reply : {""}]]

\* st = get_session(req.session_id)
RaceGetSession(t) ==
  /\ threads[t].pc = "start"
  /\ threads' = [threads EXCEPT ![t].pc = "got"]
  /\ UNCHANGED <<st, parsed, today, call, store, snapshot>>

\* add_user_message(st, req.message); reset_reply(st)
RaceAddUserMessage(t) ==
  /\ threads[t].pc = "got"
  /\ st' = reset_reply(add_user_message(st, threads[t].message))
  /\ threads' = [threads EXCEPT ![t].pc = "added"]
  /\ UNCHANGED <<parsed, today, call, store, snapshot>>

\* new_state = GRAPH.invoke(st)
RaceInvoke(t) ==
  /\ threads[t].pc = "added"
  /\ \E stable \in WizardSeeds, kind \in WizardKinds :
       LET g == build_graph([st EXCEPT !.user = LastContent(st),
                                       !.asked = st.awaiting,
                                       !.route = <<>>, !.exc = ""],
                            stable, LLMReturn(kind))
       IN /\ st' = g
          /\ threads' = [threads EXCEPT ![t].pc = IF g.exc = "" THEN "ran" ELSE "failed"]
  /\ UNCHANGED <<parsed, today, call, store, snapshot>>

\* reply = new_state.get("reply") or "Okay."; add_assistant_message; set_session
RaceSetSession(t) ==
  /\ threads[t].pc = "ran"
  /\ LET reply == IF st.reply # "" THEN st.reply ELSE "Okay."
     IN /\ st' = [add_assistant_message(st, reply) EXCEPT !.user = <<>>]
        /\ threads' = [threads EXCEPT ![t].pc = "done", ![t].reply = reply]
  /\ UNCHANGED <<parsed, today, call, store, snapshot>>

NextRace ==
  \E t \in Threads :
    RaceGetSession(t) \/ RaceAddUserMessage(t) \/ RaceInvoke(t) \/ RaceSetSession(t)

SpecRace == InitRace /\ [][NextRace]_vars

\* The turns that complete, one after the other without overlap: the replies
\* of the first and second turn and the session they leave.
Serial(first, second) ==
  LET Done(state, message) ==
        {Finish(g, "Okay.") : g \in {r \in Runs(state, message, WizardSeeds, WizardKinds) :
                                       r.exc = ""}}
  IN { [first |-> a.reply, second |-> b.reply, session |-> Session(b)] :
         a \in Done(new_session, first), b \in UNION {Done(x, second) : x \in Done(new_session, first)} }

\* C24: when two /chat requests of one session have both completed, their
\* replies and the stored session are those of the two turns run one after the
\* other, in one order or the other.
C24_ConcurrentTurnsAreSerializable ==
  (\A t \in Threads : threads[t].pc = "done") =>
    \E t \in Threads :
      LET u == CHOOSE x \in Threads : x # t
      IN \E o \in Serial(threads[t].message, threads[u].message) :
           /\ o.first = threads[t].reply
           /\ o.second = threads[u].reply
           /\ o.session = Session(st)

\* --------------------------------------------- livewell-e: the dialogue graph

\* A message is its words in order; a dict is a function from its keys; None
\* is "None" for awaiting and 0 for prisma_cursor (int(cursor or 0) is its one
\* read).  Requests carry no inline prisma7 answers.
lw_Messages ==
  { <<"hello">>, <<"screen">>, <<"plan">>, <<"Yes">>, <<"yes", "please">>, <<"maybe">>,
    <<"fine">>, <<"tired">>, <<"2500">>, <<"2500", "steps">> }

\* str.lower() on a word of the vocabulary.
lw_lower(text) == [i \in DOMAIN text |-> IF text[i] = "Yes" THEN "yes" ELSE text[i]]

\* The keywords of the nodes that occur inside a word of the vocabulary.
lw_Within(word) ==
  CASE word = "high" -> {"hi", "high"}
    [] word \in {"hello", "screen", "plan", "tired", "low", "steps"} -> {word}
    [] OTHER -> {}

\* any(w in text for w in words)
lw_any(words, text) == \E i \in DOMAIN text : lw_Within(text[i]) \cap words # {}

\* The numbers \d{2,5} matches as a whole word.
lw_Number(word) == CASE word = "2500" -> Some(2500) [] OTHER -> None

\* state.get(key) or default, `falsy` the empty value of the key's type
lw_or(state, key, falsy, default) ==
  IF key \in DOMAIN state /\ state[key] # falsy THEN state[key] ELSE default

\* What the model answers: its text and plan, or the fallbacks when the call fails.
lw_LLM == {"up", "down"}

lw_call_llm(llm) ==
  IF llm = "up" THEN "(text of the model)"
  ELSE "Thanks for the update. I'll keep it simple and suggest a short, gentle plan."

lw_generate_daily_plan(llm) ==
  IF llm = "up" THEN << "Chair stretches" >> ELSE << "Easy Walk", "Hydration" >>

lw_PRISMA_ORDER ==
  << "Are you over 85? (yes/no)", "Are you male? (yes/no)",
     "Do health problems limit your activities? (yes/no)",
     "Do you need help on a regular basis? (yes/no)",
     "Do health problems mean you stay at home? (yes/no)",
     "Can you count on someone close to you? (yes/no)",
     "Do you use a stick, walker, or wheelchair? (yes/no)" >>

lw_parse_yes_no(text) ==
  LET t == lw_lower(text) IN
  IF Len(t) = 1 /\ t[1] \in {"y", "yes", "yeah", "yep", "sure", "correct"} THEN Some(TRUE)
  ELSE IF Len(t) = 1 /\ t[1] \in {"n", "no", "nope", "nah"} THEN Some(FALSE)
  ELSE IF \E i \in DOMAIN t : t[i] \in {"y", "yes"} THEN Some(TRUE)
  ELSE IF \E i \in DOMAIN t : t[i] \in {"n", "no"} THEN Some(FALSE)
  ELSE None

lw_start_prisma(state) ==
  Update(state, [prisma_flow_active |-> TRUE, prisma_cursor |-> 0,
                 prisma_answers |-> EmptyDict, awaiting |-> "prisma",
                 reply |-> lw_PRISMA_ORDER[1]])

lw_continue_prisma(state) ==
  LET cursor0 == lw_or(state, "prisma_cursor", 0, 0)
      answers0 == lw_or(state, "prisma_answers", EmptyDict, EmptyDict)
      ans == lw_parse_yes_no(state["message"])
      answers == Put(answers0, lw_KEYS[cursor0 + 1], The(ans))
      cursor == cursor0 + 1
      scored == lw_prisma7_score([k \in lw_KeySet |-> lw_get(answers, k)], lw_Threshold)
  IN
  IF ans = None
  THEN Update(state, [reply |-> "Please answer yes or no.", awaiting |-> "prisma"])
  ELSE IF cursor < Len(lw_PRISMA_ORDER)
  THEN Update(state, [prisma_cursor |-> cursor, prisma_answers |-> answers,
                      awaiting |-> "prisma", reply |-> lw_PRISMA_ORDER[cursor + 1]])
  ELSE Update(state, [prisma_flow_active |-> FALSE, awaiting |-> "None",
                      prisma_cursor |-> 0, prisma_answers |-> answers,
                      frailty_score |-> scored.score, frailty_band |-> scored.band])

lw_SlotAwaits == {"slot:mood", "slot:energy", "slot:steps"}

lw_classify_intent(state) ==
  LET text == lw_lower(state["message"])
      awaiting == lw_or(state, "awaiting", "None", "None")
      intent ==
        IF awaiting = "prisma" THEN "continue_prisma"
        ELSE IF awaiting \in lw_SlotAwaits THEN "continue_slot"
        ELSE IF lw_any({"hi", "hello", "hey"}, text) THEN "greeting"
        ELSE IF lw_any({"screen", "prisma", "frailty", "assessment", "screener"}, text)
        THEN "start_prisma"
        ELSE IF lw_any({"plan", "routine", "suggest", "recommend", "today", "checkin",
                        "motivation"}, text)
        THEN "checkin"
        ELSE IF \E i, j \in DOMAIN text :
                  i < j /\ lw_Number(text[i]) # None /\ lw_any({"steps"}, << text[j] >>)
        THEN "checkin"
        ELSE "unknown"
  IN Put(state, "intent", intent)

lw_extract_light_entities(state) ==
  LET text == state["message"]
      tl == lw_lower(text)
      found == {i \in DOMAIN text :
                  /\ lw_Number(text[i]) # None
                  /\ i < Len(text)
                  /\ lw_lower(text)[i + 1] \in {"steps"}}
      s1 == IF found # {}
            THEN Put(state, "steps", The(lw_Number(text[CHOOSE i \in found :
                                                          \A j \in found : i <= j])))
            ELSE state
  IN
  IF lw_any({"tired", "exhausted", "fatigued", "drained"}, tl)
  THEN Update(s1, [mood |-> lw_or(s1, "mood", "", "tired"),
                   energy |-> lw_or(s1, "energy", "", "low")])
  ELSE IF lw_any({"great", "good", "motivated", "energetic", "excellent", "okay", "ok"}, tl)
  THEN Update(s1, [mood |-> lw_or(s1, "mood", "", "good"),
                   energy |-> lw_or(s1, "energy", "", "medium")])
  ELSE s1

\* The slots that are not set, in the order they are asked.
lw_needed(state) ==
  (IF lw_or(state, "mood", "", "") = "" THEN << "mood" >> ELSE <<>>)
  \o (IF lw_or(state, "energy", "", "") = "" THEN << "energy" >> ELSE <<>>)
  \o (IF lw_or(state, "steps", 0, 0) = 0 THEN << "steps" >> ELSE <<>>)

lw_ensure_slots(state) ==
  LET needed == lw_needed(state) IN
  IF needed = <<>> THEN state
  ELSE Update(state,
         [awaiting |-> "slot:" \o needed[1],
          reply |-> CASE needed[1] = "steps" ->
                           "About how many steps did you do today? (just a number)"
                      [] needed[1] = "mood" ->
                           "How are you feeling today? (e.g., tired/good/okay)"
                      [] OTHER -> "How is your energy level? (low/medium/high)"])

lw_collect_slot_answer(state) ==
  LET awaiting == lw_or(state, "awaiting", "None", "None")
      text == state["message"]
      val == lw_lower(text)
      numbers == {i \in DOMAIN text : lw_Number(text[i]) # None}
  IN
  IF awaiting \notin lw_SlotAwaits THEN state
  ELSE IF awaiting = "slot:steps"
  THEN IF numbers # {}
       THEN Update(state,
              [steps |-> The(lw_Number(text[CHOOSE i \in numbers :
                                              \A j \in numbers : i <= j])),
               awaiting |-> "None", reply |-> "Got it."])
       ELSE Put(state, "reply", "Please send a number like 2500.")
  ELSE IF awaiting = "slot:mood"
  THEN Update(state, [mood |-> Join(val, " "), awaiting |-> "None", reply |-> "Thanks."])
  ELSE Update(state,
         [energy |-> IF lw_any({"low"}, val) THEN "low"
                     ELSE IF lw_any({"high"}, val) THEN "high" ELSE "medium",
          awaiting |-> "None", reply |-> "Thanks."])

lw_plan_routine(state, llm) == Put(state, "plan", lw_generate_daily_plan(llm))

lw_compose_reply(state, llm) ==
  IF /\ lw_or(state, "reply", "", "") # ""
     /\ (lw_or(state, "awaiting", "None", "None") # "None"
            \/ lw_or(state, "prisma_flow_active", FALSE, FALSE))
  THEN state
  ELSE Put(state, "reply", lw_call_llm(llm))

\* graph.invoke(state): classify_intent, policy_router, the edges of build_graph
\* (maybe_compute_frailty changes nothing without inline answers).
lw_build_graph(state0, llm) ==
  LET state == lw_classify_intent(state0)
      intent == state["intent"]
      plan(x) == lw_compose_reply(lw_plan_routine(x, llm), llm)
  IN
  CASE intent = "continue_prisma" ->
         (LET c == lw_continue_prisma(state)
          IN IF c["awaiting"] = "prisma" THEN c ELSE plan(c))
    [] intent = "continue_slot" ->
         (LET c == lw_collect_slot_answer(state)
          IN IF c["awaiting"] \in lw_SlotAwaits THEN c ELSE plan(c))
    [] intent = "start_prisma" -> lw_start_prisma(state)
    [] intent = "greeting" -> Put(state, "reply", lw_call_llm(llm))
    [] OTHER ->
         (LET e == lw_ensure_slots(lw_extract_light_entities(state))
          IN IF lw_or(e, "awaiting", "None", "None") \in lw_SlotAwaits
             THEN e ELSE plan(e))

lw_PERSIST_KEYS ==
  {"mood", "energy", "steps", "prisma_flow_active", "prisma_cursor", "prisma_answers",
   "awaiting", "frailty_score", "frailty_band"}

\* memory.save(user_id, new_state): the stored dict, updated with the kept keys
lw_save(stored, new_state) ==
  Update(stored, [k \in DOMAIN new_state \cap lw_PERSIST_KEYS |-> new_state[k]])

\* chat() up to graph.invoke: the turn's state from what memory.get returned
lw_invoke(persisted, message, llm) ==
  lw_build_graph(Put(persisted, "message", message), llm)

\* What one whole request leaves in the store.
lw_turn(stored, message, llm) == lw_save(stored, lw_invoke(stored, message, llm))

\* `snapshot` is memory._store[user_id] (stored) with the result of the last
\* turn (last) and the stored dict the requests of a race started from (base).
InitVariant ==
  /\ st = new_session
  /\ parsed = <<>>
  /\ today = 2026307
  /\ call = NoCall
  /\ store = Unused /\ threads = Unused
  /\ snapshot = [stored |-> EmptyDict, last |-> EmptyDict, base |-> EmptyDict]

\* POST /chat of the variant, one request at a time
lw_chat ==
  \E message \in lw_Messages, llm \in lw_LLM :
    LET result == lw_invoke(snapshot.stored, message, llm)
    IN /\ snapshot' = [snapshot EXCEPT !.stored = lw_save(snapshot.stored, result),
                                       !.last = result]
       /\ UNCHANGED <<st, parsed, today, call, store, threads>>

\* The snapshot outlives its hour: the next memory.get drops it.
lw_expire ==
  /\ snapshot.stored # EmptyDict
  /\ snapshot' = [snapshot EXCEPT !.stored = EmptyDict, !.last = EmptyDict]
  /\ UNCHANGED <<st, parsed, today, call, store, threads>>

NextVariant == lw_chat \/ lw_expire

SpecVariant == InitVariant /\ [][NextVariant]_vars

\* C30: when a slot answer has been taken and a slot among mood, energy,
\* steps is still missing, the turn asks for a missing slot and makes no plan:
\* a plan comes out of the slot-filling path only with all three slots set.
C30_SlotPathPlansOnlyWhenComplete ==
  (/\ "intent" \in DOMAIN snapshot.last
   /\ snapshot.last["intent"] = "continue_slot"
   /\ lw_needed(snapshot.last) # <<>>) =>
    /\ "plan" \notin DOMAIN snapshot.last
    /\ snapshot.last["awaiting"] \in {"slot:" \o lw_needed(snapshot.last)[i] :
                                         i \in DOMAIN lw_needed(snapshot.last)}

\* ------------------------------- livewell-e: two /chat requests of one user

\* Answers the wizard had taken when the two requests arrive; two more do not
\* finish it.
MaxAnswered == 4

lw_RaceAnswers == { <<"Yes">>, <<"no">> }

RECURSIVE lw_Answered(_)
\* The store after "screen" and k answers, one request at a time.
lw_Answered(k) ==
  IF k = 0 THEN lw_turn(EmptyDict, <<"screen">>, "up")
  ELSE lw_turn(lw_Answered(k - 1), IF k % 2 = 1 THEN <<"Yes">> ELSE <<"no">>, "up")

InitVariantRace ==
  /\ st = new_session
  /\ parsed = <<>>
  /\ today = 2026307
  /\ call = NoCall
  /\ store = Unused
  /\ \E k \in 0..MaxAnswered :
       snapshot = [stored |-> lw_Answered(k), last |-> EmptyDict, base |-> lw_Answered(k)]
  /\ \E m1, m2 \in lw_RaceAnswers :
       threads = [t \in Threads |->
                   [pc |-> "start", message |-> IF t = 1 THEN m1 ELSE m2,
                    persisted |-> EmptyDict, result |-> EmptyDict]]

\* persisted = memory.get(req.user_id): a copy of the stored dict
lw_RaceGet(t) ==
  /\ threads[t].pc = "start"
  /\ threads' = [threads EXCEPT ![t].pc = "got", ![t].persisted = snapshot.stored]
  /\ UNCHANGED <<st, parsed, today, call, store, snapshot>>

\* result = graph.invoke(state)
lw_RaceInvoke(t) ==
  /\ threads[t].pc = "got"
  /\ \E llm \in lw_LLM :
       threads' = [threads EXCEPT
                     ![t].pc = "ran",
                     ![t].result = lw_invoke(threads[t].persisted, threads[t].message, llm)]
  /\ UNCHANGED <<st, parsed, today, call, store, snapshot>>

\* memory.save(req.user_id, result)
lw_RaceSave(t) ==
  /\ threads[t].pc = "ran"
  /\ threads' = [threads EXCEPT ![t].pc = "done"]
  /\ snapshot' = [snapshot EXCEPT !.stored = lw_save(snapshot.stored, threads[t].result)]
  /\ UNCHANGED <<st, parsed, today, call, store>>

NextVariantRace ==
  \E t \in Threads : lw_RaceGet(t) \/ lw_RaceInvoke(t) \/ lw_RaceSave(t)

SpecVariantRace == InitVariantRace /\ [][NextVariantRace]_vars

\* C25: when both requests have completed, prisma_cursor is two past where it
\* was, prisma_answers has an answer for each of the two questions, and the
\* store is what one of the two serial orders of the turns leaves.
C25_ConcurrentAnswersAreBothRecorded ==
  (\A t \in Threads : threads[t].pc = "done") =>
    LET k == snapshot.base["prisma_cursor"]
        serial(first, second) ==
          lw_turn(lw_turn(snapshot.base, threads[first].message, "up"),
                  threads[second].message, "up")
    IN /\ snapshot.stored["prisma_cursor"] = k + 2
       /\ {lw_KEYS[k + 1], lw_KEYS[k + 2]} \subseteq DOMAIN snapshot.stored["prisma_answers"]
       /\ snapshot.stored \in {serial(1, 2), serial(2, 1)}

\* ------------------------------------------- candidates of the suggester

RequiredLists == {"morning", "afternoon", "evening"}

\* The candidate is a dict in which a required list is absent, is not a list,
\* or holds an element that is not a string.
BrokenList(ret) ==
  /\ ret.t = "dict"
  /\ \E k \in RequiredLists :
       \/ k \notin DOMAIN ret.f
       \/ ret.f[k].t # "list"
       \/ \E i \in DOMAIN ret.f[k].l : ret.f[k].l[i].t # "str"

\* What the suggester of a call returned (JNull when there is none or it raised).
Candidate == IF Suggester(call.kind) = None THEN JNull ELSE The(Suggester(call.kind)).ret

\* C31: when the suggester returns a candidate in which morning, afternoon or
\* evening is absent, is not a list or holds a non-string element,
\* generate_daily_plan returns exactly the fallback plan for (slots, score,
\* seed): nothing of the candidate is in the result.
C31_BrokenCandidateGivesFallback ==
  (/\ call.op = "generate_daily_plan"
   /\ call.day = today
   /\ Suggester(call.kind) # None
   /\ ~The(Suggester(call.kind)).raises
   /\ BrokenList(Candidate)) =>
    call.out = [raised |-> FALSE,
                plan |-> _fallback_plan(call.slots, call.frailty_score, call.seed)]

C31_Witness ==
  /\ call.op = "generate_daily_plan"
  /\ call.kind = "notalist"
  /\ BrokenList(Candidate)
  /\ call.frailty_score = Some(5)
  /\ call.out.plan.risk = "high"
  /\ Len(call.out.plan.morning) = 3

\* C32: when the suggester returns a structurally valid candidate whose risk
\* is absent or is not one of low, moderate, high, the returned plan carries
\* the band derived from the frailty score.
C32_OddRiskTakesScoreBand ==
  (/\ call.op = "generate_daily_plan"
   /\ Suggester(call.kind) # None
   /\ ~The(Suggester(call.kind)).raises
   /\ Candidate.t = "dict"
   /\ ~BrokenList(Candidate)
   /\ ("risk" \in DOMAIN Candidate.f =>
         ~(Candidate.f["risk"].t = "str" /\ Candidate.f["risk"].s \in Risks))) =>
    call.out.plan.risk =
      (IF call.frailty_score = None THEN "moderate"
       ELSE IF The(call.frailty_score) <= 2 THEN "low"
       ELSE IF The(call.frailty_score) <= 4 THEN "moderate"
       ELSE "high")

\* C33: in the fallback plan a missing mood reads "Mood: okay", a missing
\* energy "Energy: 5/10" and missing steps "Steps so far: 0".
C33_MissingSlotsTakeDefaults ==
  (call.op = "generate_daily_plan" /\ call.kind = "absent") =>
    /\ "mood" \notin DOMAIN call.slots => call.out.plan.notes[1] = "Mood: okay"
    /\ "energy" \notin DOMAIN call.slots => call.out.plan.notes[2] = "Energy: 5/10"
    /\ "steps" \notin DOMAIN call.slots => call.out.plan.notes[3] = "Steps so far: 0"

\* The band of a score by the thresholds 0-2 low, 3-4 moderate, 5 and up high.
BandOf(score) ==
  IF score = None THEN "moderate"
  ELSE IF The(score) \in 0..2 THEN "low"
  ELSE IF The(score) \in 3..4 THEN "moderate"
  ELSE "high"

\* C34, as amended: the band of the motivational message and the band of the
\* planner agree for every frailty score (unset moderate, 0..2 low, 3..4
\* moderate, 5..7 high); for a set score prisma7_is_high_risk is true exactly
\* when the band is not low, and for an unset score it gives no verdict.
C34_BandsAgreeAndHighRiskIsNotLow ==
  (call.op = "generate_daily_plan" /\ call.kind = "absent") =>
    LET score == call.frailty_score
        band == call.out.plan.risk
    IN /\ motivate_risk(score) = band
       /\ band = BandOf(score)
       /\ score = None => prisma7_is_high_risk(score) = None
       /\ score # None => prisma7_is_high_risk(score) = Some(band # "low")

C34_Witness ==
  /\ call.op = "generate_daily_plan"
  /\ call.kind = "absent"
  /\ call.frailty_score = Some(3)
  /\ call.out.plan.risk = "moderate"
  /\ motivate_risk(call.frailty_score) = "moderate"
  /\ prisma7_is_high_risk(call.frailty_score) = Some(TRUE)

\* C34 as stated: also for an unset score, prisma7_is_high_risk is true
\* exactly when the band is not low.
C34_HighRiskExactlyWhenNotLow ==
  (call.op = "generate_daily_plan" /\ call.kind = "absent") =>
    LET score == call.frailty_score
        band == call.out.plan.risk
    IN /\ motivate_risk(score) = band
       /\ band = BandOf(score)
       /\ (prisma7_is_high_risk(score) = Some(TRUE)) <=> (band # "low")

\* ------------------------------------------------- easier and harder plans

\* Messages of the tweak specification: slot facts that lead to a plan, then
\* requests for an easier or a harder one.
TweakMessages ==
  { Say(<<"Hello">>), MsgTiredEnergy3Steps1200, MsgEnergy9Steps1200MoodCalm,
    Say(<<"easier">>), Say(<<"lighter">>), Say(<<"harder">>), Say(<<"tougher">>) }

\* POST /chat with the messages of the tweak specification
ChatTweak ==
  \E message \in TweakMessages : Request(message, "Okay.", WizardSeeds, LLMKinds)

NextTweak == ChatTweak \/ SessionWelcome

SpecTweak == Init /\ [][NextTweak]_vars

\* C35: while awaiting = after_plan, "easier"/"lighter" takes the energy e
\* (5 when unset) to max(0, e - 2) and never raises it, "harder"/"tougher"
\* takes it to min(10, e + 2) and never lowers it, and the plan is generated
\* again from the new energy.
C35_EasierLowersHarderRaisesEnergy ==
  st.awaiting = "after_plan" =>
    LET e == IF "energy" \in DOMAIN st.slots THEN st.slots["energy"] ELSE 5 IN
    /\ \A message \in {Say(<<"easier">>), Say(<<"lighter">>)} :
         \A g \in Runs(st, message, WizardSeeds, FailingKinds) :
           /\ g.exc = ""
           /\ g.slots["energy"] = Max(0, e - 2)
           /\ g.slots["energy"] <= e
           /\ g.plan = _fallback_plan(g.slots, g.frailty_score, g.plan_seed)
    /\ \A message \in {Say(<<"harder">>), Say(<<"tougher">>)} :
         \A g \in Runs(st, message, WizardSeeds, FailingKinds) :
           /\ g.exc = ""
           /\ g.slots["energy"] = Min(10, e + 2)
           /\ g.slots["energy"] >= e
           /\ g.plan = _fallback_plan(g.slots, g.frailty_score, g.plan_seed)

\* ------------------------------------------------- the wizard's bookkeeping

\* The keys of the first n questions.
FirstKeys(n) == {PRISMA_QUESTIONS[i].key : i \in 1..n}

PrismaBookkeeping(state) ==
  /\ state.prisma_index \in 0..Len(PRISMA_QUESTIONS)
  /\ state.prisma_index = Cardinality(DOMAIN state.prisma_answers)
  /\ DOMAIN state.prisma_answers = FirstKeys(state.prisma_index)
  /\ state.awaiting = "prisma" => state.prisma_index < Len(PRISMA_QUESTIONS)

\* C36: at every turn boundary prisma_index is the number of entries of
\* prisma_answers, the recorded keys are the first prisma_index keys of the
\* question order, 0 <= prisma_index <= 7, awaiting = prisma implies
\* prisma_index < 7, and prisma_index does not decrease in a turn that does not
\* start the wizard again.
C36_IndexCountsAnswersInOrder ==
  [][ /\ PrismaBookkeeping(st)
      /\ PrismaBookkeeping(st')
      /\ "start_prisma" \notin Range(st'.route) => st'.prisma_index >= st.prisma_index
    ]_vars

\* A second run of the wizard is under way after a completed one: the index
\* was reset and counts the answers of the new run.
C36_Witness ==
  /\ st.awaiting = "prisma"
  /\ st.asked = "prisma"
  /\ st.frailty_score # None
  /\ st.prisma_index = 3
  /\ DOMAIN st.prisma_answers = FirstKeys(3)

\* A turn that completes the wizard: the seventh answer is recorded.
CompletesWizard ==
  /\ st.awaiting = "prisma"
  /\ st.prisma_index = Len(PRISMA_QUESTIONS) - 1
  /\ st'.prisma_index = Len(PRISMA_QUESTIONS)
  /\ st'.awaiting = "post_checkin"
  /\ "continue_prisma" \in Range(st'.route)

\* C37: while awaiting = prisma no request changes slots, plan or plan_seed,
\* and frailty_score changes only in the turn that records the seventh answer
\* of the wizard; no other turn of any handler alters it.
C37_WizardLeavesSlotsAndPlanAlone ==
  [][ /\ st.awaiting = "prisma" =>
           /\ st'.slots = st.slots
           /\ st'.plan = st.plan
           /\ st'.plan_seed = st.plan_seed
      /\ st'.frailty_score # st.frailty_score => CompletesWizard
    ]_vars

\* The wizard was sent slot facts as an answer to question 3 while a plan and
\* slots were there: it asks question 3 again.
C37_Witness ==
  /\ st.asked = "prisma"
  /\ st.awaiting = "prisma"
  /\ "continue_prisma" \in Range(st.route)
  /\ st.prisma_index = 2
  /\ RequiredSlots \subseteq DOMAIN st.slots
  /\ st.plan # EmptyDict
  /\ st.plan_seed # None

\* C38: whenever frailty_score is set and awaiting is not prisma, frailty_score
\* is prisma7_score of the prisma_answers the session holds.
C38_ScoreMatchesCurrentAnswers ==
  (st.frailty_score # None /\ st.awaiting # "prisma") =>
    st.frailty_score = prisma7_score(Bools(st.prisma_answers))

\* ------------------------------------------- the reply and what is awaited

\* The reply the last request returned.
TurnReply == IF st.route = <<"session_welcome">> THEN WelcomeText ELSE st.reply

\* The text that asks question n of the check-in.
QuestionText(n) ==
  {"Q" \o ToString(n) \o ": " \o PRISMA_QUESTIONS[n].question}
  \cup (IF n = 1 THEN {"Great - daily check-in Q1: " \o PRISMA_QUESTIONS[1].question}
        ELSE {})

\* C39: at the end of every turn the reply matches what is awaited: at
\* awaiting = prisma with prisma_index = i it is the text of question i + 1; at
\* awaiting = confirm_checkin it is the check-in offer or the confirmation
\* question; a turn in which plan_routine ran ends at awaiting = after_plan
\* with the rendering of the new plan followed by the follow-up suffix.
C39_ReplyMatchesAwaiting ==
  /\ st.awaiting = "prisma" =>
       /\ st.prisma_index < Len(PRISMA_QUESTIONS)
       /\ TurnReply \in QuestionText(st.prisma_index + 1)
  /\ st.awaiting = "confirm_checkin" =>
       TurnReply \in {OfferText, WelcomeText, ConfirmQuestion}
  /\ "plan_routine" \in Range(st.route) =>
       /\ st.awaiting = "after_plan"
       /\ st.plan # EmptyDict
       /\ TurnReply = RenderPlan(st.plan, "after_plan")

C39_Witness ==
  /\ "plan_routine" \in Range(st.route)
  /\ st.asked = "slot:steps"
  /\ st.frailty_score # None
  /\ st.awaiting = "after_plan"
  /\ TurnReply = RenderPlan(st.plan, "after_plan")
  /\ st.plan = _fallback_plan(st.slots, st.frailty_score, st.plan_seed)

\* ------------------------------------------- the TTL snapshot, called alone

\* memory.get and memory.save of one id under a clock.  A saved value is the
\* time of its save, so a field tells when it was written.  `snapshot` holds
\* the stored dict, its expiry time (0: none), the clock, the result of the
\* last get, and two records of the history: the fields written before an
\* expiry that has passed (lapsed) and the fields written since (fresh).
_TTL_SEC == 3600

\* The clock moves in steps of half the time to live, MaxTicks times.
MaxTicks == 6
ClockStep == _TTL_SEC \div 2

SnapshotKeys == {"mood", "awaiting", "reply"}

Expired(s) == s.expiry # 0 /\ s.expiry < s.now

FieldsOf(d) == {<<k, d[k]>> : k \in DOMAIN d}

InitTTL ==
  /\ st = new_session
  /\ parsed = <<>>
  /\ today = 2026307
  /\ call = NoCall
  /\ store = Unused /\ threads = Unused
  /\ snapshot = [stored |-> EmptyDict, expiry |-> 0, now |-> ClockStep, op |-> "none",
                  got |-> EmptyDict, lapsed |-> {}, fresh |-> EmptyDict]

\* save(user_id, new_state)
TTLSave ==
  \E keys \in SUBSET SnapshotKeys \ {{}} :
    LET new_state == [k \in keys |-> snapshot.now]
        kept == [k \in keys \cap lw_PERSIST_KEYS |-> snapshot.now]
    IN /\ snapshot' = [snapshot EXCEPT
                          !.stored = lw_save(snapshot.stored, new_state),
                          !.expiry = snapshot.now + _TTL_SEC,
                          !.op = "save",
                          !.fresh = IF Expired(snapshot) THEN kept ELSE Update(@, kept)]
       /\ UNCHANGED <<st, parsed, today, call, store, threads>>

\* get(user_id)
TTLGet ==
  /\ snapshot' = IF Expired(snapshot)
                  THEN [snapshot EXCEPT !.stored = EmptyDict, !.expiry = 0,
                                        !.got = EmptyDict, !.op = "get",
                                        !.fresh = EmptyDict]
                  ELSE [snapshot EXCEPT !.got = snapshot.stored, !.op = "get"]
  /\ UNCHANGED <<st, parsed, today, call, store, threads>>

\* _now() moves on.
TTLTick ==
  /\ snapshot.now < MaxTicks * ClockStep
  /\ LET later == [snapshot EXCEPT !.now = @ + ClockStep, !.op = "tick"]
     IN snapshot' = IF Expired(later) /\ ~Expired(snapshot)
                    THEN [later EXCEPT !.lapsed = @ \cup FieldsOf(snapshot.stored),
                                       !.fresh = EmptyDict]
                    ELSE later
  /\ UNCHANGED <<st, parsed, today, call, store, threads>>

NextTTL == TTLSave \/ TTLGet \/ TTLTick

SpecTTL == InitTTL /\ [][NextTTL]_vars

\* C40: once the expiry time of an entry (last save + 1 hour) has passed, no
\* field saved before that expiry is returned by a later get, also when a save
\* came after the expiry and before the get; the fields saved within the time
\* to live are returned unchanged.
C40_ExpiredFieldsAreNeverReturned ==
  snapshot.op = "get" =>
    /\ FieldsOf(snapshot.got) \cap snapshot.lapsed = {}
    /\ snapshot.got = snapshot.fresh

====
